---- MODULE Spec2Model ----
(***************************************************************************)
(* The optimistic write engine of OracleCollection (Oracle/OracleCollection *)
(* .js) over a SODA collection: keyed, versioned documents, whole-document  *)
(* reads and conditional replace / remove.  Two callers run one collection  *)
(* operation each; every store request (a read, a replace, a remove, an     *)
(* insert) is one atomic step of the store, and the JavaScript between two  *)
(* requests of one caller runs without interruption (one event loop).       *)
(***************************************************************************)
EXTENDS Integers, Sequences, FiniteSets, Bags, TLC

VARIABLES
  docs,      \* the collection: key -> [version, content]
  nextKey,   \* the key the store assigns to the next inserted document
  pc,        \* each caller's position in its operation
  call,      \* each caller's invocation: [op, query, update, names, retry]
  rd,        \* the result of the caller's latest _rawFind
  upd,       \* the document the caller is about to write (updateObj / merged update)
  res,       \* what the operation resolved with
  passes,    \* bag of deleteFieldFromCollection calls whose read is pending
  dfs,       \* bag of deleteField calls whose replaceOne is pending
  reissued,  \* whether the caller re-issued its call after a 'retry' (history)
  lost,      \* whether a deleteField of the caller lost a version race (history)
  conn,      \* the connections: each caller's store step, this._oracleCollection,
             \* whether the collection exists, this.idIndexCreating
  queryBackup, \* OracleStorageAdapter.js' module variable: the query of the latest find
  fnd,       \* each caller's OracleStorageAdapter.find: [pc, query, objects, result]
  rf,        \* the _rawFind whose filter translation is followed
  pu,        \* the $pullAll stage of a findOneAndUpdate that is followed
  wr,        \* the write of a findOneAndUpdate that is followed: [pc, oldContent,
             \* update, updateObj]
  ix,        \* this.indexes of a collection, the names of the store's indexes, and
             \* the index operation in progress
  pj,        \* the projection at the end of a find: [pc, keys, objects, result]
  sc,        \* the name argument of each caller's OracleSchemaCollection method
  sd,        \* the deleteSchemaFields call that is followed: [pc, name, tasks, res]
  cq,        \* the checkUserQuery call that is followed: [pc, query, result]
  sx,        \* the setIndexesWithSchemaFormat call that is followed, with the
             \* indexes of the store, this.indexes and the schema's index metadata
  pl         \* the adapter's connection pool: this.connectionPromise, the module
             \* variable createConnPool, the pools created, each caller's connect()

\* the variables of the operations that are followed one at a time
rest == <<sd, cq, pl, sx>>

more == <<wr, ix, pj, sc, rest>>

vars == <<docs, nextKey, pc, call, rd, upd, res, passes, dfs, reissued, lost, conn, queryBackup, fnd, rf, pu, more>>

Procs == {"p1", "p2"}

\* A caller that runs no store step: no connection obtained, localConn null
NoConn == [at |-> "none", kind |-> "none", open |-> 0, localConn |-> FALSE, failed |-> FALSE]

\* Number of documents the collection may hold at the start.
MaxDocs == 2

----------------------------------------------------------------------------
(* JSON objects are functions from field names to values. *)

Empty == [x \in {} |-> 0]

Keys(o) == DOMAIN o

Has(o, f) == f \in DOMAIN o

\* delete o[f] / _.unset(o, f)
Unset(o, f) == [x \in (DOMAIN o) \ {f} |-> o[x]]

UnsetAll(o, fs) == [x \in (DOMAIN o) \ fs |-> o[x]]

\* _.set(o, f, v)
Set(o, f, v) == [x \in (DOMAIN o) \cup {f} |-> IF x = f THEN v ELSE o[x]]

\* _.merge(o, u) for sources whose values are scalars, arrays or operator
\* objects absent from o: every key of u is assigned into o.
Merge(o, u) == [x \in (DOMAIN o) \cup (DOMAIN u) |-> IF x \in DOMAIN u THEN u[x] ELSE o[x]]

SeqToSet(s) == {s[i] : i \in 1..Len(s)}

----------------------------------------------------------------------------
(* The store: a SODA collection with key column ID (UUID), version column  *)
(* VERSION (UUID: a fresh token on every write) and a unique index on _id. *)

\* A filter that takes {f: {$exists: false}} for no constraint
MatchesPresentOnly(content, query) ==
  /\ \A f \in DOMAIN query.eq : Has(content, f) /\ content[f] = query.eq[f]
  /\ \A f \in query.exists : Has(content, f)

\* A filter by example: equalities, $exists:true and $exists:false clauses.
Matches(content, query) ==
  /\ \A f \in DOMAIN query.eq : Has(content, f) /\ content[f] = query.eq[f]
  /\ \A f \in query.exists : Has(content, f)
  /\ \A f \in query.absent : ~Has(content, f)

\* find().filter(query).getDocuments(): the keys of the matching documents
FindKeys(d, query) == {k \in DOMAIN d : Matches(d[k].content, query)}

\* The store's answer to a read of one document
Doc(d, k) == [found |-> TRUE, key |-> k, version |-> d[k].version, content |-> d[k].content]

\* _rawFind's {} for type 'one' with zero documents
NoDoc == [found |-> FALSE, key |-> 0, version |-> 0, content |-> Empty]

\* find().key(key).version(version): the stored document is addressed only when
\* both the key and the version match.  The variant addresses it by key alone.
ReplacedByKeyOnly(d, key, version) == key \in DOMAIN d

Replaced(d, key, version) == key \in DOMAIN d /\ d[key].version = version

\* The variant replaces whatever version is stored under the key.
ReplaceOneBlind(d, key, version, content) ==
  IF key \in DOMAIN d
  THEN [d EXCEPT ![key] = [version |-> d[key].version + 1, content |-> content]]
  ELSE d

\* ...replaceOne(content): result.replaced; a replace writes a fresh version
ReplaceOne(d, key, version, content) ==
  IF Replaced(d, key, version)
  THEN [d EXCEPT ![key] = [version |-> d[key].version + 1, content |-> content]]
  ELSE d

\* The variant removes by key alone.
RemoveOneByKey(d, key, version) ==
  IF key \in DOMAIN d THEN [k \in (DOMAIN d) \ {key} |-> d[k]] ELSE d

\* ...remove(): result.count is 1 or 0
RemoveOne(d, key, version) ==
  IF Replaced(d, key, version) THEN [k \in (DOMAIN d) \ {key} |-> d[k]] ELSE d

\* find().remove(): no key, no version, every document goes
RemoveAll(d) == [k \in {} |-> d[k]]

\* the unique index ididx<collection> on _id, created with the collection
DuplicateId(d, content) ==
  /\ Has(content, "_id")
  /\ \E k \in DOMAIN d : Has(d[k].content, "_id") /\ d[k].content["_id"] = content["_id"]

\* insertOne(content)
InsertOne(d, key, content) ==
  IF DuplicateId(d, content) THEN d
  ELSE [k \in (DOMAIN d) \cup {key} |-> IF k = key THEN [version |-> 1, content |-> content] ELSE d[k]]

----------------------------------------------------------------------------
(* What an operation resolves or rejects with. *)

Result(kind, content, count) == [kind |-> kind, content |-> content, count |-> count]

Pending == Result("pending", Empty, 0)

\* the new content (DONE)
Done(content) == Result("content", content, 0)

\* the string 'retry'
Retry == Result("retry", Empty, 0)

\* false: no document matched
False == Result("false", Empty, 0)

\* an async function that falls off its end
Undefined == Result("undefined", Empty, 0)

\* the SodaOperation.remove() result {count}
RemoveResult(n) == Result("removed", Empty, n)

\* the SodaDocument insertOne resolves with
Inserted(content) == Result("inserted", content, 0)

\* a non-empty array of documents (upsertOne), or Promise.all's array
Array(n) == Result("array", Empty, n)

\* a rejection; count tells the errors apart
TypeError == Result("error", Empty, 1)
MultipleDocs == Result("error", Empty, 2)
ObjectNotFound == Result("error", Empty, 3)
DuplicateError == Result("error", Empty, 4)

----------------------------------------------------------------------------
(* The update transform of findOneAndUpdate.  An update expression is      *)
(* [set, unset, inc, addToSet, pullAll]: the plain fields, the names under *)
(* $unset, the deltas under $inc, and field -> candidates ($each) under    *)
(* $addToSet and under $pullAll.  An operator with no entry is absent from *)
(* the expression.  Array elements and candidates are scalars.             *)

NaN == "NaN"

\* Number.isNaN, for a value that is a number or NaN
IsNaN(v) == ToString(v) = ToString(NaN)

\* $inc: _.set(content, f, _.result(content, f) + delta); undefined + delta is
\* NaN, and so is NaN + delta
ApplyInc(content, inc) ==
  [x \in (DOMAIN content) \cup (DOMAIN inc) |->
     IF x \in DOMAIN inc
     THEN (IF Has(content, x) /\ ~IsNaN(content[x]) THEN content[x] + inc[x] ELSE NaN)
     ELSE content[x]]

\* updtArray.forEach: push each candidate the array does not include yet
RECURSIVE AddEach(_, _, _)
AddEach(arr, cands, i) ==
  IF i > Len(cands) THEN arr
  ELSE AddEach(IF cands[i] \in SeqToSet(arr) THEN arr ELSE Append(arr, cands[i]), cands, i + 1)

\* $addToSet: newArray = content[f] is pushed to in place
ApplyAddToSet(content, ats) ==
  [x \in DOMAIN content |->
     IF x \in DOMAIN ats THEN AddEach(content[x], ats[x], 1) ELSE content[x]]

\* addToSetUpdt: some candidate was pushed
AddToSetPushed(content, ats) ==
  \E f \in DOMAIN ats : \E i \in 1..Len(ats[f]) : ats[f][i] \notin SeqToSet(content[f])

\* newArray.includes / newArray.some on an undefined array
AddToSetThrows(content, ats) ==
  \E f \in DOMAIN ats : ~Has(content, f) /\ Len(ats[f]) > 0

\* The update object left after the operator stages: an operator key stays in
\* it unless its stage set its flag (incUpdt, addToSetUpdt, pullAllUpdt).
\* $pullAll sets pullAllUpdt only for object candidates, never for scalars.
Residual(content, u) ==
  LET ops == { o \in {"$addToSet", "$pullAll"} :
                 \/ o = "$addToSet" /\ DOMAIN u.addToSet # {} /\ ~AddToSetPushed(content, u.addToSet)
                 \/ o = "$pullAll" /\ DOMAIN u.pullAll # {} }
  IN [x \in (DOMAIN u.set) \cup ops |->
        IF x = "$addToSet" THEN u.addToSet
        ELSE IF x = "$pullAll" THEN u.pullAll
        ELSE u.set[x]]

\* The variant merges the other way round: what the document held wins.
NewContentOldWins(content, u) ==
  Merge(Residual(ApplyInc(content, u.inc), u),
        ApplyAddToSet(ApplyInc(content, u.inc), u.addToSet))

\* updateObj for a found document: $inc, $addToSet, then _.merge(oldContent, update)
NewContent(content, u) ==
  LET c1 == ApplyInc(content, u.inc)
      c2 == ApplyAddToSet(c1, u.addToSet)
  IN Merge(c2, Residual(c1, u))

\* The transform dereferences result.content[field] before it looks whether a
\* document was found: $addToSet/$each and $pullAll throw a TypeError on {}.
TransformThrows(result, u) ==
  IF result.found
  THEN AddToSetThrows(ApplyInc(result.content, u.inc), u.addToSet)
  ELSE DOMAIN u.addToSet # {} \/ DOMAIN u.pullAll # {}

\* updateSchemaIndexes: _.merge(oldContent._metadata, update._metadata), one
\* level down (an index specification is written whole)
MergeMetadata(om, um) ==
  [x \in (DOMAIN om) \cup (DOMAIN um) |->
     IF x \in DOMAIN um
     THEN (IF x \in DOMAIN om THEN Merge(om[x], um[x]) ELSE um[x])
     ELSE om[x]]

\* updateSchemaIndexes: set or merge _metadata; the other keys of the update
\* are not written
SchemaIndexContent(content, update) ==
  IF ~Has(update, "_metadata") THEN content
  ELSE IF ~Has(content, "_metadata") THEN Set(content, "_metadata", update["_metadata"])
  ELSE IF /\ Has(content["_metadata"], "indexes")
          /\ Cardinality(DOMAIN update) <= Cardinality(DOMAIN content["_metadata"]["indexes"])
       THEN Set(content, "_metadata",
                Set(content["_metadata"], "indexes", update["_metadata"]["indexes"]))
  ELSE Set(content, "_metadata", MergeMetadata(content["_metadata"], update["_metadata"]))

----------------------------------------------------------------------------
(* The calls the two callers choose from. *)

QueryWith(eq, exists, absent) == [eq |-> eq, exists |-> exists, absent |-> absent]

Query(eq, exists) == QueryWith(eq, exists, {})

ById(n) == Query("_id" :> n, {})

ByA == Query("a" :> 1, {})

NoQuery == Query(Empty, {})

Update(set, unset, inc, addToSet, pullAll) ==
  [set |-> set, unset |-> unset, inc |-> inc, addToSet |-> addToSet, pullAll |-> pullAll]

SetFields(set) == Update(set, {}, Empty, Empty, Empty)

NoUpdate == SetFields(Empty)

\* retry: the caller re-issues the call when it resolves with 'retry', as
\* OracleSchemaCollection.upsertSchema does
Call(op, query, update, names, retry) ==
  [op |-> op, query |-> query, update |-> update, names |-> names, retry |-> retry]

NoCall == Call("none", NoQuery, NoUpdate, {}, FALSE)

Calls ==
  { Call("update", ById(1), SetFields("a" :> 2), {}, TRUE),
    Call("update", ById(1), SetFields("b" :> 2), {}, TRUE),
    Call("update", ById(1), SetFields("a" :> 2), {}, FALSE),
    Call("update", ById(1), Update(Empty, {"b"}, Empty, Empty, Empty), {}, FALSE),
    Call("update", ById(1), Update(Empty, {}, "b" :> 1, Empty, Empty), {}, FALSE),
    Call("update", ById(1), Update(Empty, {}, Empty, "t" :> <<1, 2>>, Empty), {}, FALSE),
    Call("update", ById(1), Update(Empty, {}, Empty, Empty, "t" :> <<1>>), {}, FALSE),
    Call("upsert", ByA, SetFields("b" :> 2), {}, FALSE),
    Call("upsert", ById(1), SetFields("a" :> 2), {}, FALSE),
    Call("insertOne", NoQuery, SetFields("_id" :> 1 @@ "a" :> 1), {}, FALSE),
    Call("findOneAndDelete", ById(1), NoUpdate, {}, FALSE),
    Call("deleteObjectsByQuery", ByA, NoUpdate, {}, FALSE),
    Call("truncate", NoQuery, NoUpdate, {}, FALSE),
    Call("deleteFields", NoQuery, NoUpdate, {"a", "b"}, FALSE),
    Call("updateSchemaIndexes", ById(1),
         SetFields("_metadata" :> ("indexes" :> ("i1" :> 1))), {}, FALSE),
    Call("deleteSchemaField", ById(1), NoUpdate, {"b"}, FALSE) }

\* The documents the collection may start with: what insertOne stored.  The
\* first holds every field the calls name, the second only field a, and any
\* further document only its _id.
DocContent(k) ==
  IF k = 1
  THEN ("_id" :> 1 @@ "a" :> 1 @@ "b" :> 1 @@ "t" :> <<1>>
        @@ "_metadata" :> ("indexes" :> ("_id_" :> 1)))
  ELSE IF k = 2 THEN ("_id" :> 2 @@ "a" :> 1)
  ELSE ("_id" :> k)

InitDocs(n) == [k \in 1..n |-> [version |-> 1, content |-> DocContent(k)]]

----------------------------------------------------------------------------
(* Pending calls of the bulk field deletion. *)

Pass(p, f) == [p |-> p, f |-> f]

\* deleteField(fieldName, key, version, oldContent): delete oldContent[fieldName]
\* runs as the call is made
Item(p, f, d, k) ==
  [p |-> p, f |-> f, key |-> k, version |-> d[k].version, content |-> Unset(d[k].content, f)]

\* Promise.all of the caller's deleteFields has every promise settled
NoTasks(p) ==
  /\ \A t \in BagToSet(passes) : t.p # p
  /\ \A t \in BagToSet(dfs) : t.p # p

\* The update object as upsertOne holds it: plain fields and operator keys
UpdateObject(u) ==
  LET ops == { o \in {"$inc", "$addToSet", "$pullAll"} :
                 \/ o = "$inc" /\ DOMAIN u.inc # {}
                 \/ o = "$addToSet" /\ DOMAIN u.addToSet # {}
                 \/ o = "$pullAll" /\ DOMAIN u.pullAll # {} }
  IN [x \in (DOMAIN u.set) \cup ops |->
        IF x = "$inc" THEN u.inc
        ELSE IF x = "$addToSet" THEN u.addToSet
        ELSE IF x = "$pullAll" THEN u.pullAll
        ELSE u.set[x]]

\* What follows a failed or successful deleteField: on 'retry' the whole
\* deleteFieldFromCollection(fieldName) runs again.  The first variant gives up
\* on 'retry'; the second calls deleteField again with the version it holds.
AfterDeleteFieldNoRetry(ps, ds, item, replaced) ==
  [passes |-> ps, dfs |-> ds (-) SetToBag({item})]

AfterDeleteFieldSameVersion(ps, ds, item, replaced) ==
  [passes |-> ps, dfs |-> IF replaced THEN ds (-) SetToBag({item}) ELSE ds]

AfterDeleteField(ps, ds, item, replaced) ==
  [passes |-> IF replaced THEN ps ELSE ps (+) SetToBag({Pass(item.p, item.f)}),
   dfs |-> ds (-) SetToBag({item})]

----------------------------------------------------------------------------
(* JSON values as trees, for the filters _rawFind rewrites and the arrays  *)
(* $pullAll filters.  A node is [t, k, n, l]: its type, the key it has in  *)
(* its parent object ("" for an array element and for the root), its       *)
(* number (1/0 for true/false), and its members in order.                  *)

Node(t, k, n, l) == [t |-> t, k |-> k, n |-> n, l |-> l]

Num(k, n) == Node("num", k, n, <<>>)

Null(k) == Node("null", k, 0, <<>>)

Bool(k, b) == Node("bool", k, IF b THEN 1 ELSE 0, <<>>)

Obj(k, l) == Node("obj", k, 0, l)

Arr(k, l) == Node("arr", k, 0, l)

\* the same value under another key
Keyed(v, k) == [v EXCEPT !.k = k]

\* Object.keys(o)
NodeKeys(o) == {o.l[i].k : i \in 1..Len(o.l)}

\* o[k], for a key o has
Member(o, k) == o.l[CHOOSE i \in 1..Len(o.l) : o.l[i].k = k]

\* typeof v === 'object'
IsObject(v) == v.t \in {"obj", "arr", "null"}

----------------------------------------------------------------------------
(* What the adapter's find, the followed _rawFind and the followed         *)
(* $pullAll stage hold before they are called.                             *)

\* A Parse query: equalities, and field -> operand of $containedBy
FindQuery(eq, cb) == [eq |-> eq, cb |-> cb]

\* var queryBackup = '': a value with no $containedBy in it
NoFindQuery == FindQuery(Empty, Empty)

FindResult(kind, keys) == [kind |-> kind, keys |-> keys]

NoFind == [pc |-> "idle", query |-> NoFindQuery, objects |-> {},
           result |-> FindResult("pending", {})]

\* _rawFind: the query it was given, the filter handed to findOperation.filter,
\* whether getDocuments was called, the connection it holds, what it settled with
NoRawFind == [pc |-> "idle", query |-> Obj("", <<>>), filter |-> Obj("", <<>>),
              submitted |-> FALSE, open |-> 0, result |-> FindResult("pending", {})]

\* the array under the $pullAll field (rsltArray), the candidates (updtArray),
\* newPullAllUpdate[field], pullAllUpdt, the array of the document that is
\* written, and whether that document holds a $pullAll key
NoPullAll == [pc |-> "idle", array |-> <<>>, cands |-> <<>>, newArray |-> <<>>,
              pullAllUpdt |-> FALSE, written |-> <<>>, operator |-> FALSE]

\* findOneAndUpdate from 'End of Transform Update' on: the content read, the
\* update left by the operator stages, and the document handed to replaceOne
NoWrite == [pc |-> "idle", oldContent |-> Obj("", <<>>), update |-> Obj("", <<>>),
            updateObj |-> Obj("", <<>>)]

\* indexes = new Array(); the store has the indexes named in soda; the call
\* in progress, the errorNum the store answered (0: none) and the result
NoIndexes == [pc |-> "idle", indexes |-> <<>>, soda |-> {}, op |-> "none", name |-> "",
              path |-> "", err |-> 0, res |-> Pending]

\* the keys option of find (undefined when defined is FALSE), the objects
\* the store answered with, and the objects find returns
NoProjection == [pc |-> "idle", keys |-> [defined |-> FALSE, set |-> {}],
                 objects |-> <<>>, result |-> <<>>]

\* What is passed as name to a method of OracleSchemaCollection: the class
\* name n (wraps = 0), or an object {_id: ... {_id: n}} of wraps nested objects
Name(n) == [wraps |-> 0, id |-> n]

\* The adapter after construction: no connectionPromise, createConnPool
\* true, no pool, no connect() called
NoPool == [connectionPromise |-> FALSE, createConnPool |-> TRUE, pools |-> 0,
           of |-> [p \in Procs |-> [pc |-> "idle", res |-> "pending", calls |-> 0]]]

\* The indexes a class has before setIndexesWithSchemaFormat is called
ExistingIndexes == <<"i1", "i2">>

\* setIndexesWithSchemaFormat before it is called: the store, this.indexes
\* and _metadata.indexes of the schema document hold the same indexes
NoSetIndexes ==
  [pc |-> "idle", submitted |-> <<>>, i |-> 1, existingIndexes |-> {},
   insertedIndexes |-> <<>>, soda |-> SeqToSet(ExistingIndexes),
   indexes |-> ExistingIndexes, metadata |-> SeqToSet(ExistingIndexes), res |-> "pending"]

\* checkUserQuery before it is called
NoUserQuery == [pc |-> "idle", query |-> Obj("", <<>>), result |-> Obj("", <<>>)]

\* deleteSchemaFields before it is called: no class, no per-field promise
NoDeleteSchemaFields == [pc |-> "idle", name |-> 0, tasks |-> Empty, res |-> Pending]

----------------------------------------------------------------------------
(* The state after construction: a collection of 0..MaxDocs documents and  *)
(* two callers that have not called yet.                                   *)

InitWith(d) ==
  /\ docs = d /\ nextKey = Cardinality(DOMAIN d) + 1
  /\ pc = [p \in Procs |-> "idle"]
  /\ call = [p \in Procs |-> NoCall]
  /\ rd = [p \in Procs |-> NoDoc]
  /\ upd = [p \in Procs |-> Empty]
  /\ res = [p \in Procs |-> Pending]
  /\ passes = EmptyBag
  /\ dfs = EmptyBag
  /\ reissued = [p \in Procs |-> FALSE]
  /\ lost = [p \in Procs |-> FALSE]
  /\ conn = [of |-> [p \in Procs |-> NoConn],
             collection |-> "none",
             exists |-> DOMAIN docs # {},
             idIndexCreating |-> FALSE]
  /\ queryBackup = NoFindQuery
  /\ fnd = [p \in Procs |-> NoFind]
  /\ rf = NoRawFind
  /\ pu = NoPullAll
  /\ wr = NoWrite
  /\ ix = NoIndexes
  /\ pj = NoProjection
  /\ sc = [p \in Procs |-> Name(0)]
  /\ sd = NoDeleteSchemaFields
  /\ cq = NoUserQuery
  /\ pl = NoPool
  /\ sx = NoSetIndexes

Init == \E n \in 0..MaxDocs : InitWith(InitDocs(n))

FirstPc(op) ==
  CASE op \in {"update", "upsert"} -> "fu_read"
    [] op = "insertOne" -> "insert"
    [] op = "findOneAndDelete" -> "fd_read"
    [] op = "deleteObjectsByQuery" -> "dq_read"
    [] op = "truncate" -> "tr_remove"
    [] op = "deleteFields" -> "df_wait"
    [] op = "updateSchemaIndexes" -> "si_read"
    [] op = "deleteSchemaField" -> "sf_read"

Goto(p, where) == pc' = [pc EXCEPT ![p] = where]

\* the operation's promise resolves or rejects with r
Settle(p, r) == pc' = [pc EXCEPT ![p] = "done"] /\ res' = [res EXCEPT ![p] = r]

\* _rawFind(query, {type: 'one'}): {} for no document, the document for one,
\* a throw for several
Multiple(d, query) == Cardinality(FindKeys(d, query)) > 1

ReadOne(d, query) ==
  IF FindKeys(d, query) = {} THEN NoDoc ELSE Doc(d, CHOOSE k \in FindKeys(d, query) : TRUE)

\* A caller makes its call.  deleteFields starts one deleteFieldFromCollection
\* per field name at once; insertOne is handed its document.
BeginFrom(p, menu) ==
  /\ pc[p] = "idle"
  /\ \E c \in menu :
       /\ call' = [call EXCEPT ![p] = c]
       /\ pc' = [pc EXCEPT ![p] = FirstPc(c.op)]
       /\ passes' = IF c.op = "deleteFields"
                    THEN passes (+) SetToBag({Pass(p, f) : f \in c.names})
                    ELSE passes
       /\ upd' = IF c.op = "insertOne" THEN [upd EXCEPT ![p] = c.update.set] ELSE upd
  /\ UNCHANGED <<docs, nextKey, rd, res, dfs, reissued, lost, conn, queryBackup, fnd, rf, pu, more>>

Begin(p) == BeginFrom(p, Calls)

\* findOneAndUpdate after its (latest) read: the transform, then either the
\* replace is prepared or the call ends with false or with a throw
FUAfterRead(p, result, u) ==
  /\ rd' = [rd EXCEPT ![p] = result]
  /\ IF TransformThrows(result, u)
     THEN Settle(p, TypeError) /\ UNCHANGED upd
     ELSE IF result.found
     THEN /\ upd' = [upd EXCEPT ![p] = NewContent(result.content, u)]
          /\ Goto(p, "fu_replace")
          /\ UNCHANGED res
     ELSE /\ IF call[p].op = "upsert"
             THEN Goto(p, "up_find") /\ UNCHANGED res
             ELSE Settle(p, False)
          /\ UNCHANGED upd

\* findOneAndUpdate: the first _rawFind; with $unset, deleteFields(fieldNames)
\* is started on the whole collection
FURead(p) ==
  /\ pc[p] = "fu_read"
  /\ IF Multiple(docs, call[p].query)
     THEN Settle(p, MultipleDocs) /\ UNCHANGED <<rd, upd, passes>>
     ELSE IF call[p].update.unset # {}
     THEN /\ rd' = [rd EXCEPT ![p] = ReadOne(docs, call[p].query)]
          /\ passes' = passes (+) SetToBag({Pass(p, f) : f \in call[p].update.unset})
          /\ Goto(p, "fu_unset")
          /\ UNCHANGED <<res, upd>>
     ELSE FUAfterRead(p, ReadOne(docs, call[p].query), call[p].update) /\ UNCHANGED passes
  /\ UNCHANGED <<docs, nextKey, call, dfs, reissued, lost, conn, queryBackup, fnd, rf, pu, more>>

\* findOneAndUpdate: deleteFields has resolved; the second _rawFind
FUReread(p) ==
  /\ pc[p] = "fu_unset"
  /\ NoTasks(p)
  /\ IF Multiple(docs, call[p].query)
     THEN Settle(p, MultipleDocs) /\ UNCHANGED <<rd, upd>>
     ELSE FUAfterRead(p, ReadOne(docs, call[p].query), call[p].update)
  /\ UNCHANGED <<docs, nextKey, call, passes, dfs, reissued, lost, conn, queryBackup, fnd, rf, pu, more>>

\* findOneAndUpdate: find().key(key).version(version).replaceOne(updateObj)
FUReplace(p) ==
  /\ pc[p] = "fu_replace"
  /\ docs' = ReplaceOne(docs, rd[p].key, rd[p].version, upd[p])
  /\ Settle(p, IF Replaced(docs, rd[p].key, rd[p].version) THEN Done(upd[p]) ELSE Retry)
  /\ UNCHANGED <<nextKey, call, rd, upd, passes, dfs, reissued, lost, conn, queryBackup, fnd, rf, pu, more>>

\* upsertSchema handing on what findOneAndUpdate resolved with, 'retry' too
CallerReturns(p) ==
  /\ pc[p] = "done"
  /\ res[p] = Retry
  /\ UNCHANGED vars

\* The caller re-issues the whole call on 'retry'
CallerRetry(p) ==
  /\ pc[p] = "done"
  /\ call[p].op = "update"
  /\ call[p].retry
  /\ res[p] = Retry
  /\ pc' = [pc EXCEPT ![p] = "fu_read"]
  /\ res' = [res EXCEPT ![p] = Pending]
  /\ reissued' = [reissued EXCEPT ![p] = TRUE]
  /\ UNCHANGED <<docs, nextKey, call, rd, upd, passes, dfs, lost, conn, queryBackup, fnd, rf, pu, more>>

\* upsertOne: findOneAndUpdate resolved with false; _rawFind(query, 'sodadocs')
UpsertFind(p) ==
  /\ pc[p] = "up_find"
  /\ IF FindKeys(docs, call[p].query) = {}
     THEN /\ upd' = [upd EXCEPT ![p] = Merge(UpdateObject(call[p].update), call[p].query.eq)]
          /\ Goto(p, "insert")
          /\ UNCHANGED res
     ELSE /\ Settle(p, Array(Cardinality(FindKeys(docs, call[p].query))))
          /\ UNCHANGED upd
  /\ UNCHANGED <<docs, nextKey, call, rd, passes, dfs, reissued, lost, conn, queryBackup, fnd, rf, pu, more>>

\* insertOne(object)
InsertOneStep(p) ==
  /\ pc[p] = "insert"
  /\ docs' = InsertOne(docs, nextKey, upd[p])
  /\ nextKey' = IF DuplicateId(docs, upd[p]) THEN nextKey ELSE nextKey + 1
  /\ Settle(p, IF DuplicateId(docs, upd[p]) THEN DuplicateError ELSE Inserted(upd[p]))
  /\ UNCHANGED <<call, rd, upd, passes, dfs, reissued, lost, conn, queryBackup, fnd, rf, pu, more>>

\* findOneAndDelete: _rawFind(query, 'one'); no document ends the call with
\* undefined
FdRead(p) ==
  /\ pc[p] = "fd_read"
  /\ IF Multiple(docs, call[p].query)
     THEN Settle(p, MultipleDocs) /\ UNCHANGED rd
     ELSE /\ rd' = [rd EXCEPT ![p] = ReadOne(docs, call[p].query)]
          /\ IF FindKeys(docs, call[p].query) = {}
             THEN Settle(p, Undefined)
             ELSE Goto(p, "fd_remove") /\ UNCHANGED res
  /\ UNCHANGED <<docs, nextKey, call, upd, passes, dfs, reissued, lost, conn, queryBackup, fnd, rf, pu, more>>

\* findOneAndDelete: find().key(key).version(version).remove(); the call
\* resolves with the remove result
FdRemove(p) ==
  /\ pc[p] = "fd_remove"
  /\ docs' = RemoveOne(docs, rd[p].key, rd[p].version)
  /\ Settle(p, RemoveResult(IF Replaced(docs, rd[p].key, rd[p].version) THEN 1 ELSE 0))
  /\ UNCHANGED <<nextKey, call, rd, upd, passes, dfs, reissued, lost, conn, queryBackup, fnd, rf, pu, more>>

\* deleteObjectsByQuery: _rawFind(query, 'all'); the loop returns in its first
\* round, so only result[0] (the store's first document, any of them) is kept
DqRead(p) ==
  /\ pc[p] = "dq_read"
  /\ IF FindKeys(docs, call[p].query) = {}
     THEN Settle(p, ObjectNotFound) /\ UNCHANGED rd
     ELSE /\ \E k \in FindKeys(docs, call[p].query) : rd' = [rd EXCEPT ![p] = Doc(docs, k)]
          /\ Goto(p, "dq_remove")
          /\ UNCHANGED res
  /\ UNCHANGED <<docs, nextKey, call, upd, passes, dfs, reissued, lost, conn, queryBackup, fnd, rf, pu, more>>

\* deleteObjectsByQuery: find().key(key).version(version).remove()
DqRemove(p) ==
  /\ pc[p] = "dq_remove"
  /\ docs' = RemoveOne(docs, rd[p].key, rd[p].version)
  /\ Settle(p, RemoveResult(IF Replaced(docs, rd[p].key, rd[p].version) THEN 1 ELSE 0))
  /\ UNCHANGED <<nextKey, call, rd, upd, passes, dfs, reissued, lost, conn, queryBackup, fnd, rf, pu, more>>

\* truncate: find().remove()
Truncate(p) ==
  /\ pc[p] = "tr_remove"
  /\ docs' = RemoveAll(docs)
  /\ Settle(p, RemoveResult(Cardinality(DOMAIN docs)))
  /\ UNCHANGED <<nextKey, call, rd, upd, passes, dfs, reissued, lost, conn, queryBackup, fnd, rf, pu, more>>

\* updateSchemaIndexes: _rawFind(query, 'one') and the _metadata set or merge
SiRead(p) ==
  /\ pc[p] = "si_read"
  /\ IF Multiple(docs, call[p].query)
     THEN Settle(p, MultipleDocs) /\ UNCHANGED <<rd, upd>>
     ELSE /\ rd' = [rd EXCEPT ![p] = ReadOne(docs, call[p].query)]
          /\ IF FindKeys(docs, call[p].query) = {}
             THEN Settle(p, False) /\ UNCHANGED upd
             ELSE /\ upd' = [upd EXCEPT ![p] =
                       SchemaIndexContent(ReadOne(docs, call[p].query).content, call[p].update.set)]
                  /\ Goto(p, "si_replace")
                  /\ UNCHANGED res
  /\ UNCHANGED <<docs, nextKey, call, passes, dfs, reissued, lost, conn, queryBackup, fnd, rf, pu, more>>

\* updateSchemaIndexes: the conditional replace; resolves with the update
SiReplace(p) ==
  /\ pc[p] = "si_replace"
  /\ docs' = ReplaceOne(docs, rd[p].key, rd[p].version, upd[p])
  /\ Settle(p, IF Replaced(docs, rd[p].key, rd[p].version)
               THEN Done(call[p].update.set) ELSE Retry)
  /\ UNCHANGED <<nextKey, call, rd, upd, passes, dfs, reissued, lost, conn, queryBackup, fnd, rf, pu, more>>

\* deleteSchemaField: _rawFind({...query, field: {$exists: true}}, 'one'); {} is
\* truthy, so with no document delete oldContent[fieldName] throws
SfQuery(c) == Query(c.query.eq, c.query.exists \cup c.names)

SfRead(p) ==
  /\ pc[p] = "sf_read"
  /\ IF Multiple(docs, SfQuery(call[p]))
     THEN Settle(p, MultipleDocs) /\ UNCHANGED <<rd, upd>>
     ELSE /\ rd' = [rd EXCEPT ![p] = ReadOne(docs, SfQuery(call[p]))]
          /\ IF FindKeys(docs, SfQuery(call[p])) = {}
             THEN Settle(p, TypeError) /\ UNCHANGED upd
             ELSE /\ upd' = [upd EXCEPT ![p] =
                       UnsetAll(ReadOne(docs, SfQuery(call[p])).content, call[p].names)]
                  /\ Goto(p, "sf_replace")
                  /\ UNCHANGED res
  /\ UNCHANGED <<docs, nextKey, call, passes, dfs, reissued, lost, conn, queryBackup, fnd, rf, pu, more>>

\* deleteSchemaField: the conditional replace
SfReplace(p) ==
  /\ pc[p] = "sf_replace"
  /\ docs' = ReplaceOne(docs, rd[p].key, rd[p].version, upd[p])
  /\ Settle(p, IF Replaced(docs, rd[p].key, rd[p].version) THEN Done(upd[p]) ELSE Retry)
  /\ UNCHANGED <<nextKey, call, rd, upd, passes, dfs, reissued, lost, conn, queryBackup, fnd, rf, pu, more>>

\* deleteFieldFromCollection(f): _rawFind({f: {$exists: true}}, 'all'), then one
\* deleteField per document found
PassRead(t) ==
  /\ BagIn(t, passes)
  /\ passes' = passes (-) SetToBag({t})
  /\ dfs' = dfs (+) SetToBag({Item(t.p, t.f, docs, k) : k \in FindKeys(docs, Query(Empty, {t.f}))})
  /\ UNCHANGED <<docs, nextKey, pc, call, rd, upd, res, reissued, lost, conn, queryBackup, fnd, rf, pu, more>>

\* deleteField: the conditional replace of one document
DeleteField(t) ==
  /\ BagIn(t, dfs)
  /\ docs' = ReplaceOne(docs, t.key, t.version, t.content)
  /\ passes' = AfterDeleteField(passes, dfs, t, Replaced(docs, t.key, t.version)).passes
  /\ dfs' = AfterDeleteField(passes, dfs, t, Replaced(docs, t.key, t.version)).dfs
  /\ lost' = IF Replaced(docs, t.key, t.version) THEN lost ELSE [lost EXCEPT ![t.p] = TRUE]
  /\ UNCHANGED <<nextKey, pc, call, rd, upd, res, reissued, conn, queryBackup, fnd, rf, pu, more>>

\* deleteFields: Promise.all(promises) resolves
DfResolve(p) ==
  /\ pc[p] = "df_wait"
  /\ NoTasks(p)
  /\ Settle(p, Array(Cardinality(call[p].names)))
  /\ UNCHANGED <<docs, nextKey, call, rd, upd, passes, dfs, reissued, lost, conn, queryBackup, fnd, rf, pu, more>>

\* One step of a findOneAndUpdate and of its caller
UpdateStep(p) == FURead(p) \/ FUReread(p) \/ FUReplace(p) \/ CallerRetry(p)

\* One step of caller p's operation
ProcStep(p) ==
  \/ UpdateStep(p)
  \/ UpsertFind(p) \/ InsertOneStep(p)
  \/ FdRead(p) \/ FdRemove(p) \/ DqRead(p) \/ DqRemove(p) \/ Truncate(p)
  \/ SiRead(p) \/ SiReplace(p) \/ SfRead(p) \/ SfReplace(p)
  \/ DfResolve(p)

\* One step of a pending call of caller p's bulk field deletion
TaskStep(p) ==
  \/ \E t \in BagToSet(passes) : t.p = p /\ PassRead(t)
  \/ \E t \in BagToSet(dfs) : t.p = p /\ DeleteField(t)

Next == \E p \in Procs : Begin(p) \/ ProcStep(p) \/ TaskStep(p)

Spec == Init /\ [][Next]_vars

\* The bulk field deletion next to the writers it races with: deleteFields
\* itself, findOneAndUpdate of a plain field whose caller re-issues it on
\* 'retry', and findOneAndUpdate with $unset
DeleteFieldsCalls ==
  { c \in Calls :
      \/ c.op = "deleteFields"
      \/ c.op = "update" /\ c.retry /\ "a" \in DOMAIN c.update.set
      \/ c.op = "update" /\ c.update.unset # {} }

NextDeleteFields ==
  \E p \in Procs :
    BeginFrom(p, DeleteFieldsCalls) \/ UpdateStep(p) \/ DfResolve(p) \/ TaskStep(p)

\* Every request the store has received is served and every settled promise is
\* continued: a pending step of a caller or of its field deletion is taken
FairDeleteFields ==
  /\ Init /\ [][NextDeleteFields]_vars
  /\ \A p \in Procs : WF_vars(UpdateStep(p) \/ DfResolve(p)) /\ WF_vars(TaskStep(p))

----------------------------------------------------------------------------
(* Properties of the optimistic write engine. *)

\* findOneAndUpdate (called directly or by upsertOne) has run its conditional
\* replace on the document of its latest read
ReachedReplace(p) ==
  /\ pc[p] = "done"
  /\ call[p].op \in {"update", "upsert"}
  /\ rd[p].found
  /\ res[p].kind # "error"

SameRead(p, q) == rd[p].key = rd[q].key /\ rd[p].version = rd[q].version

\* C1: when two findOneAndUpdate calls read the same document at the same
\* version and both ran their conditional replace, exactly one resolved with
\* its new content and the other with 'retry'.
C1_OneDoneOneRetry ==
  \A p \in Procs : \A q \in Procs \ {p} :
    (ReachedReplace(p) /\ ReachedReplace(q) /\ SameRead(p, q))
      => \/ res[p] = Done(upd[p]) /\ res[q] = Retry
         \/ res[q] = Done(upd[q]) /\ res[p] = Retry

C1_Witness ==
  \E p \in Procs : \E q \in Procs \ {p} :
    /\ ReachedReplace(p) /\ ReachedReplace(q) /\ SameRead(p, q)
    /\ res[p].kind = "content" /\ res[q].kind = "retry"

\* a call that only sets plain fields and whose caller re-issues it on 'retry'
SetsFields(c) ==
  /\ c.op = "update" /\ c.retry
  /\ DOMAIN c.update.set # {} /\ c.update.unset = {}
  /\ DOMAIN c.update.inc = {} /\ DOMAIN c.update.addToSet = {} /\ DOMAIN c.update.pullAll = {}

\* two finished updates of one document that set disjoint fields
DisjointUpdatesDone(p, q) ==
  /\ SetsFields(call[p]) /\ SetsFields(call[q])
  /\ call[p].query = call[q].query
  /\ (DOMAIN call[p].update.set) \cap (DOMAIN call[q].update.set) = {}
  /\ pc[p] = "done" /\ pc[q] = "done"
  /\ res[p].kind = "content" /\ res[q].kind = "content"
  /\ rd[p].key = rd[q].key

Reflects(content, set) == \A f \in DOMAIN set : Has(content, f) /\ content[f] = set[f]

\* C2: no lost update: when both callers re-issue on 'retry', two concurrent
\* updates that set disjoint fields of one document are both in the stored
\* content once both have resolved with their content.
C2_NoLostUpdate ==
  \A p \in Procs : \A q \in Procs \ {p} :
    DisjointUpdatesDone(p, q)
      => /\ rd[p].key \in DOMAIN docs
         /\ Reflects(docs[rd[p].key].content, call[p].update.set)
         /\ Reflects(docs[rd[p].key].content, call[q].update.set)

C2_Witness ==
  \E p \in Procs : \E q \in Procs \ {p} : DisjointUpdatesDone(p, q) /\ reissued[q]

\* caller p runs the conditional replace of its operation on document k, with
\* the key and the version of its latest read, and the version is the stored one
ReplaceByLatestRead(p, k) ==
  /\ pc[p] \in {"fu_replace", "si_replace", "sf_replace"}
  /\ pc'[p] = "done"
  /\ rd[p].found /\ rd[p].key = k /\ rd[p].version = docs[k].version

\* a deleteField runs its replace on document k with the key and version its
\* deleteFieldFromCollection read, and the version is the stored one
DeleteFieldByRead(k) ==
  \E t \in BagToSet(dfs) :
    /\ CopiesIn(t, dfs') < CopiesIn(t, dfs)
    /\ t.key = k /\ t.version = docs[k].version

\* C3: a stored document changes only through a replace addressed by the key
\* and version the same operation got from its own latest read, and only when
\* that version is the one stored at that moment.
C3_ConditionalReplaceOnly ==
  [][\A k \in (DOMAIN docs) \cap (DOMAIN docs') :
       docs'[k] # docs[k]
         => (\E p \in Procs : ReplaceByLatestRead(p, k)) \/ DeleteFieldByRead(k)]_vars

C3_Witness ==
  \E k \in DOMAIN docs : \E p \in Procs :
    /\ docs[k].version > 1
    /\ pc[p] = "done" /\ res[p].kind = "content" /\ rd[p].key = k

\* caller p runs the conditional remove of its delete on document k
RemoveByRead(p, k) ==
  /\ pc[p] \in {"fd_remove", "dq_remove"}
  /\ pc'[p] = "done"
  /\ rd[p].found /\ rd[p].key = k /\ rd[p].version = docs[k].version

\* C4 as claimed: a document leaves the collection only through a delete
\* addressed by the (key, version) pair of a preceding read, truncate included.
C4_Claimed ==
  [][\A k \in (DOMAIN docs) \ (DOMAIN docs') : \E p \in Procs : RemoveByRead(p, k)]_vars

\* C4: findOneAndDelete and deleteObjectsByQuery remove a document only by a
\* delete addressed by the (key, version) pair of their preceding read;
\* truncate removes every document at once, with no key and no version.
C4_ConditionalDeleteOrTruncate ==
  [][\A k \in (DOMAIN docs) \ (DOMAIN docs') :
       \/ \E p \in Procs : RemoveByRead(p, k)
       \/ \E p \in Procs : pc[p] = "tr_remove" /\ pc'[p] = "done" /\ DOMAIN docs' = {}]_vars

C4_Witness ==
  \E p \in Procs :
    /\ call[p].op \in {"findOneAndDelete", "deleteObjectsByQuery"}
    /\ pc[p] = "done" /\ res[p] = RemoveResult(1)
    /\ rd[p].key \notin DOMAIN docs

\* the document caller p read is still stored, at another version
ChangedSinceRead(p) ==
  /\ rd[p].found
  /\ rd[p].key \in DOMAIN docs
  /\ docs[rd[p].key].version # rd[p].version

\* C5 as claimed: a conditional delete whose document was changed by a
\* concurrent writer between its read and its remove (version mismatch, nothing
\* removed) resolves with 'retry'.
C5_LostDeleteRetries ==
  [][\A p \in Procs :
       (/\ pc[p] \in {"fd_remove", "dq_remove"}
        /\ pc'[p] = "done"
        /\ ChangedSinceRead(p))
         => res'[p] = Retry]_vars

\* C6 as claimed: findOneAndUpdate whose filter matches no document resolves
\* with false, without a throw, whatever the update expression is.
C6_NotFoundIsFalse ==
  [][\A p \in Procs :
       (/\ pc[p] \in {"fu_read", "fu_unset"}
        /\ pc'[p] = "done"
        /\ call[p].op = "update"
        /\ FindKeys(docs, call[p].query) = {})
         => res'[p] = False]_vars

\* deleteFields(fieldNames) of caller p has resolved, called directly or for
\* the $unset of a findOneAndUpdate
FieldNames(c) == IF c.op = "deleteFields" THEN c.names ELSE c.update.unset

DeleteFieldsResolved(p) ==
  \/ call[p].op = "deleteFields" /\ pc[p] = "done"
  \/ /\ call[p].op \in {"update", "upsert"}
     /\ call[p].update.unset # {}
     /\ pc[p] \notin {"idle", "fu_read", "fu_unset"}

\* a call that writes field f into a document that lacks it
ReAdds(c, f) ==
  \/ f \in (DOMAIN c.update.set) \cup (DOMAIN c.update.inc)
  \/ c.op = "upsert" /\ f \in DOMAIN c.query.eq

NoReAdder(p) == \A q \in Procs \ {p} : \A f \in FieldNames(call[p]) : ~ReAdds(call[q], f)

\* C7: when deleteFields has resolved and no concurrent writer re-adds a named
\* field, no document of the collection contains a named field, lost version
\* races included.
C7_FieldsGone ==
  \A p \in Procs :
    (DeleteFieldsResolved(p) /\ NoReAdder(p))
      => \A k \in DOMAIN docs : \A f \in FieldNames(call[p]) : ~Has(docs[k].content, f)

C7_Witness ==
  \E p \in Procs :
    /\ call[p].op = "deleteFields" /\ pc[p] = "done" /\ lost[p]
    /\ NoReAdder(p)
    /\ \E q \in Procs \ {p} : pc[q] = "done" /\ res[q].kind \in {"content", "retry"}

\* C8: the internal retry of the bulk field deletion terminates: every
\* deleteFields that was started resolves.
C8_DeleteFieldsResolves ==
  \A p \in Procs : (pc[p] \in {"df_wait", "fu_unset"}) ~> (pc[p] \notin {"df_wait", "fu_unset"})

\* a deleteFields resolved after its own passes conflicted with each other
C8_Witness ==
  \E p \in Procs :
    /\ call[p].op = "deleteFields" /\ pc[p] = "done" /\ lost[p]
    /\ \A q \in Procs \ {p} : pc[q] = "idle"

\* C9 as claimed: upsertOne inserts only when no document matching its filter
\* is stored at that moment, so two concurrent upsertOne calls with the same
\* filter that both inserted never leave two documents matching it.
C9_NoTwoMatchingAfterUpserts ==
  \A p \in Procs : \A q \in Procs \ {p} :
    (/\ call[p].op = "upsert" /\ call[q].op = "upsert"
     /\ call[p].query = call[q].query
     /\ pc[p] = "done" /\ pc[q] = "done"
     /\ res[p].kind = "inserted" /\ res[q].kind = "inserted")
      => Cardinality(FindKeys(docs, call[p].query)) <= 1

----------------------------------------------------------------------------
(* One store step of an OracleCollection operation, connection by          *)
(* connection: getCollectionConnection (pool, connection, SODA collection  *)
(* opened or created), the request, the close.  Each await may reject.     *)
(* conn.of[p].open counts the connections caller p's step obtained and has *)
(* not closed; localConn is the variable of the operation itself, assigned *)
(* only when getCollectionConnection resolves.                             *)

\* the operations that obtain a connection through getCollectionConnection
StoreSteps ==
  {"_rawFind", "findOneAndUpdate", "insertOne", "deleteField",
   "_createIndex", "dropIndex", "drop", "truncate"}

At(p, where) == conn.of[p].at = where

ConnTo(p, c) == conn' = [conn EXCEPT !.of[p] = c]

DataUnchanged ==
  UNCHANGED <<docs, nextKey, pc, call, rd, upd, res, passes, dfs, reissued, lost,
              queryBackup, fnd, rf, pu, more>>

\* an operation starts its store step: getCollectionConnection is called
StepBegin(p) ==
  /\ At(p, "none")
  /\ \E k \in StoreSteps : ConnTo(p, [NoConn EXCEPT !.at = "connect", !.kind = k])
  /\ DataUnchanged

\* this._oracleStorageAdapter.connect(): the pool, or a rejection
Connect(p) ==
  /\ At(p, "connect")
  /\ \E ok \in BOOLEAN :
       ConnTo(p, [conn.of[p] EXCEPT !.at = IF ok THEN "getConnection" ELSE "rejected"])
  /\ DataUnchanged

\* p.getConnection(): localConn of getCollectionConnection holds the connection
GetConnection(p) ==
  /\ At(p, "getConnection")
  /\ \E ok \in BOOLEAN :
       ConnTo(p, IF ok
                 THEN [conn.of[p] EXCEPT !.at = "openCollection", !.open = @ + 1]
                 ELSE [conn.of[p] EXCEPT !.at = "rejected"])
  /\ DataUnchanged

\* conn.getSodaDatabase() and sodadb.openCollection(name): the collection, no
\* collection yet, or a rejection
OpenCollection(p) ==
  /\ At(p, "openCollection")
  /\ \E ok \in BOOLEAN :
       ConnTo(p, [conn.of[p] EXCEPT !.at = IF ~ok THEN "rejected"
                                           ELSE IF conn.exists THEN "resolve"
                                           ELSE "createCollection"])
  /\ DataUnchanged

\* createCollection(name, metaData); the _id index follows unless
\* idIndexCreating is set already
CreateCollection(p) ==
  /\ At(p, "createCollection")
  /\ \E ok \in BOOLEAN :
       conn' = [conn EXCEPT
                  !.of[p].at = IF ~ok THEN "rejected"
                               ELSE IF conn.idIndexCreating THEN "resolve"
                               ELSE "createIndex",
                  !.exists = @ \/ ok,
                  !.idIndexCreating = @ \/ ok]
  /\ DataUnchanged

\* newCollection.createIndex(indexSpec) on _id
CreateIdIndex(p) ==
  /\ At(p, "createIndex")
  /\ \E ok \in BOOLEAN :
       ConnTo(p, [conn.of[p] EXCEPT !.at = IF ok THEN "resolve" ELSE "rejected"])
  /\ DataUnchanged

\* getCollectionConnection resolves: this._oracleCollection is assigned and the
\* operation's .then(conn => { localConn = conn; ... }) runs
Resolve(p) ==
  /\ At(p, "resolve")
  /\ conn' = [conn EXCEPT !.of[p].at = "request", !.of[p].localConn = TRUE, !.collection = p]
  /\ DataUnchanged

\* getCollectionConnection rejects (.catch(error => { throw error })): the
\* operation's .then is skipped, its .finally or catch sees localConn null,
\* and the operation rejects
Reject(p) ==
  /\ At(p, "rejected")
  /\ ConnTo(p, [conn.of[p] EXCEPT
                  !.at = "settled", !.failed = TRUE,
                  !.open = IF conn.of[p].localConn THEN @ - 1 ELSE @])
  /\ DataUnchanged

\* the request on this._oracleCollection resolves or rejects, or (_rawFind with
\* an empty $in or $all) is not made at all; drop removes the collection
Request(p) ==
  /\ At(p, "request")
  /\ \E ok \in BOOLEAN :
       conn' = [conn EXCEPT
                  !.of[p].at = "close",
                  !.of[p].failed = ~ok,
                  !.exists = IF ok /\ conn.of[p].kind = "drop" THEN FALSE ELSE @]
  /\ DataUnchanged

\* .finally(async () => { if (localConn) { await localConn.close() } }), and in
\* _rawFind also the close before return [] and the close of the catch block;
\* then the operation settles
Close(p) ==
  /\ At(p, "close")
  /\ ConnTo(p, [conn.of[p] EXCEPT
                  !.at = "settled",
                  !.open = IF conn.of[p].localConn THEN @ - 1 ELSE @,
                  !.localConn = FALSE])
  /\ DataUnchanged

ConnStep(p) ==
  \/ StepBegin(p) \/ Connect(p) \/ GetConnection(p) \/ OpenCollection(p)
  \/ CreateCollection(p) \/ CreateIdIndex(p) \/ Resolve(p) \/ Reject(p)
  \/ Request(p) \/ Close(p)

NextConn == \E p \in Procs : ConnStep(p)

SpecConn == Init /\ [][NextConn]_vars

\* C10 as claimed: every connection an operation obtained from the pool is
\* closed when the operation settles, on success and on every error path,
\* a failure to open or create the collection included.
C10_ClosedWhenSettled ==
  \A p \in Procs : At(p, "settled") => conn.of[p].open = 0

----------------------------------------------------------------------------
(* OracleStorageAdapter.find and its $containedBy post-filter.  find keeps *)
(* the query in the module variable queryBackup, asks the collection, and  *)
(* filters what comes back in the .then of that request.                   *)

\* The documents of a class with array fields n and m
FindContent(k) ==
  IF k = 1 THEN ("_id" :> 1 @@ "c" :> 1 @@ "n" :> <<1>>)
  ELSE IF k = 2 THEN ("_id" :> 2 @@ "c" :> 1 @@ "n" :> <<1, 2>>)
  ELSE IF k = 3 THEN ("_id" :> 3 @@ "c" :> 2 @@ "n" :> <<3>> @@ "m" :> <<1>>)
  ELSE ("_id" :> k @@ "c" :> 2 @@ "n" :> <<>>)

FindDocs(n) == [k \in 1..n |-> [version |-> 1, content |-> FindContent(k)]]

InitFind == \E n \in 1..(MaxDocs + 1) : InitWith(FindDocs(n))

\* The queries find is called with: at most one $containedBy each
FindQueries ==
  { FindQuery(eq, cb) :
      eq \in {Empty, "c" :> 1},
      cb \in {Empty, "n" :> <<1>>, "n" :> <<1, 2>>, "m" :> <<1>>} }

\* collection.find(oracleWhere, ...): the documents the store answers with, a
\* superset of the $containedBy answer (the equalities hold and the array
\* fields are there) that the .then of find narrows
FindMatches(d, q) ==
  { k \in DOMAIN d :
      /\ \A f \in DOMAIN q.eq : Has(d[k].content, f) /\ d[k].content[f] = q.eq[f]
      /\ \A f \in DOMAIN q.cb : Has(d[k].content, f) }

\* myObject[prop].filter(x => !operand.includes(x)).length == 0
ContainedBy(array, operand) == SeqToSet(array) \subseteq SeqToSet(operand)

\* The .then of find: for every prop of queryBackup that has $containedBy,
\* result.filter(...); myObject[prop] of a document without prop is undefined
\* and .filter on it throws
PostFilter(d, objects, backup) ==
  IF \E f \in DOMAIN backup.cb : \E k \in objects : ~Has(d[k].content, f)
  THEN FindResult("error", {})
  ELSE FindResult("objects",
         { k \in objects :
             \A f \in DOMAIN backup.cb : ContainedBy(d[k].content[f], backup.cb[f]) })

FindUnchanged ==
  UNCHANGED <<docs, nextKey, pc, call, rd, upd, res, passes, dfs, reissued, lost, conn, rf, pu, more>>

\* find(className, schema, query, options) up to the request: queryBackup = query
FindBegin(p) ==
  /\ fnd[p].pc = "idle"
  /\ \E q \in FindQueries :
       /\ queryBackup' = q
       /\ fnd' = [fnd EXCEPT ![p] = [NoFind EXCEPT !.pc = "find", !.query = q]]
  /\ FindUnchanged

\* collection.find(...): the store answers
FindRead(p) ==
  /\ fnd[p].pc = "find"
  /\ fnd' = [fnd EXCEPT ![p].pc = "then",
                        ![p].objects = FindMatches(docs, fnd[p].query)]
  /\ UNCHANGED queryBackup
  /\ FindUnchanged

\* .then(objects => ...): the post-filter reads queryBackup as it is now
FindThen(p) ==
  /\ fnd[p].pc = "then"
  /\ fnd' = [fnd EXCEPT ![p].pc = "done",
                        ![p].result = PostFilter(docs, fnd[p].objects, queryBackup)]
  /\ UNCHANGED queryBackup
  /\ FindUnchanged

NextFind == \E p \in Procs : FindBegin(p) \/ FindRead(p) \/ FindThen(p)

SpecFind == InitFind /\ [][NextFind]_vars

\* C11: the result of find depends only on its own query and the store: the
\* $containedBy post-filter of a find that has resolved was evaluated against
\* that find's own query, whatever the other caller's find did meanwhile.
C11_FindUsesOwnFilter ==
  \A p \in Procs :
    fnd[p].pc = "done" =>
      fnd[p].result = PostFilter(docs, FindMatches(docs, fnd[p].query), fnd[p].query)

----------------------------------------------------------------------------
(* _rawFind: the rewriting of the query before findOperation.filter(query). *)
(* The loop visits the top-level keys of a copy (myObj) of the query in     *)
(* order; a rewrite assigns a whole new object to query.                    *)

\* Longest filter, in top-level keys
MaxClauses == 3

HasKey(o, k) == k \in NodeKeys(o)

\* delete o[k]
Without(o, k) == [o EXCEPT !.l = SelectSeq(o.l, LAMBDA m : m.k # k)]

\* o[v.k] = v
Put(o, v) ==
  IF HasKey(o, v.k)
  THEN [o EXCEPT !.l = [i \in 1..Len(o.l) |-> IF o.l[i].k = v.k THEN v ELSE o.l[i]]]
  ELSE [o EXCEPT !.l = Append(o.l, v)]

\* Object.keys(v).length: a number or a boolean has no keys
KeyCount(v) == IF v.t \in {"obj", "arr"} THEN Len(v.l) ELSE 0

\* v['__FIELD__!!__'] !== undefined
HasField(v) == v.t = "obj" /\ HasKey(v, "__FIELD__!!__")

\* The variant hands the equality to null to the store as it is.
NullEqualityAsIs(x, myObj) == Obj("", <<Null(x)>>)

\* EqualTo() with null: { $or: [{x: {$exists: false}}, {x: null}] }, wrapped
\* in a $and with the query's own $or when it has one
NullEquality(x, myObj) ==
  LET either == Obj("", <<Arr("$or", <<Obj("", <<Obj(x, <<Bool("$exists", FALSE)>>)>>),
                                      Obj("", <<Null(x)>>)>>)>>)
  IN IF HasKey(myObj, "$or")
     THEN Obj("", <<Arr("$and", <<either, Obj("", <<Member(myObj, "$or")>>)>>)>>)
     ELSE either

\* The variant leaves out the $exists: true.
NotNullNoExists(x) == Obj("", <<Arr("$and", <<Obj("", <<Obj(x, <<Null("$ne")>>)>>)>>)>>)

\* notEqualTo() with null: { $and: [{x: {$exists: true}}, {x: {$ne: null}}] }
NotNull(x) ==
  Obj("", <<Arr("$and", <<Obj("", <<Obj(x, <<Bool("$exists", TRUE)>>)>>),
                         Obj("", <<Obj(x, <<Null("$ne")>>)>>)>>)>>)

\* Remove empty objects from the $and clause: { $and: condList }
CleanAnd(json) == Obj("", <<Arr("$and", SelectSeq(json.l, LAMBDA item : KeyCount(item) # 0))>>)

\* Object.keys(condList).forEach: one { 'x[*].key': condList[key] } per key
KeyConds(x, condList) ==
  [i \in 1..KeyCount(condList) |->
     Obj("", <<Keyed(condList.l[i], x \o "[*]." \o condList.l[i].k)>>)]

\* for (var ass in myObj[x]['$all']): every element that is an object adds
\* the conditions of condList = myObj[x]['$all'][0]
RECURSIVE AllConds(_, _, _)
AllConds(x, all, i) ==
  IF i > Len(all.l) THEN <<>>
  ELSE (IF IsObject(all.l[i]) THEN KeyConds(x, all.l[1]) ELSE <<>>) \o AllConds(x, all, i + 1)

\* $all of $regex expressions: { $and: [{x: element['__FIELD__!!__']}, ...] }
FieldConds(x, all) ==
  Obj("", <<Arr("$and", [i \in 1..Len(all.l) |->
                           Obj("", <<Keyed(Member(all.l[i], "__FIELD__!!__"), x)>>)])>>)

\* The state of the loop: the query as rewritten so far, the copy, and
\* whether _rawFind goes on ("go"), has returned [] ("empty") or has thrown
Loop(query, myObj, out) == [query |-> query, myObj |-> myObj, out |-> out]

\* for (const y in json): one operator m of the value under x
Operator(x, m, st) ==
  IF m.k = "$all" /\ m.t = "arr" /\ (Len(m.l) = 0 \/ m.l[1].t = "null")
  THEN Loop(st.query, st.myObj, "empty")
  ELSE
    LET conds == IF m.k = "$all" /\ m.t = "arr" /\ ~HasField(m.l[1])
                 THEN AllConds(x, m, 1) ELSE <<>>
        q1 == IF Len(conds) # 0 THEN Obj("", <<Arr("$and", conds)>>) ELSE st.query
        listed == m.k \in {"$in", "$nin", "$all"} /\ m.t = "arr"
    IN IF /\ listed /\ Len(m.l) > 0 /\ m.l[1].t # "null"
          /\ KeyCount(m.l[1]) = 0 /\ m.k = "$all" /\ IsObject(m.l[1])
       THEN Loop(q1, st.myObj, "empty")
       ELSE IF listed /\ Len(m.l) = 0 /\ m.k \in {"$in", "$all"}
       THEN Loop(q1, st.myObj, "empty")
       ELSE
         LET q2 == IF listed /\ Len(m.l) = 0 THEN Obj("", <<>>) ELSE q1
         IN IF m.k = "$all" /\ m.t = "arr" /\ HasField(m.l[1])
            THEN (IF HasKey(q2, x)
                  THEN Loop(FieldConds(x, Member(Member(q2, x), "$all")), st.myObj, "go")
                  ELSE Loop(q2, st.myObj, "throw"))
            ELSE Loop(q2, st.myObj, "go")

RECURSIVE Operators(_, _, _, _)
Operators(x, json, i, st) ==
  IF i > Len(json.l) \/ st.out # "go" THEN st
  ELSE Operators(x, json, i + 1, Operator(x, json.l[i], st))

\* for (const x in myObj): one top-level key of the copy
Clause(json, st) ==
  IF ~IsObject(json) \/ ~HasKey(st.myObj, json.k) THEN st
  ELSE
    LET x == json.k
        s1 == IF json.t = "null"
              THEN Loop(NullEquality(x, st.myObj), Without(st.myObj, "$or"), "go")
              ELSE IF json.t = "obj" /\ Len(json.l) > 0 /\ json.l[1].k = "$ne"
                      /\ json.l[1].t = "null"
              THEN Loop(NotNull(x), st.myObj, "go")
              ELSE IF x = "$and" /\ json.t = "arr"
              THEN Loop(CleanAnd(json), st.myObj, "go")
              ELSE st
        s2 == Operators(x, json, 1, s1)
    IN IF s2.out = "go" /\ x = "$or"
       THEN Loop(Put(s2.query, Member(s2.myObj, "$or")), s2.myObj, "go")
       ELSE s2

RECURSIVE Clauses(_, _, _)
Clauses(query, i, st) ==
  IF i > Len(query.l) \/ st.out # "go" THEN st
  ELSE Clauses(query, i + 1, Clause(query.l[i], st))

\* The whole rewriting of one query
Translate(query) == Clauses(query, 1, Loop(query, query, "go"))

----------------------------------------------------------------------------
(* The store's side of a filter (SODA query by example): which filters it  *)
(* refuses and which documents a filter matches.                           *)

\* ORA-40676: an empty array of values (JZN-00305) or an empty object in a
\* list of conditions (JZN-00315), at any depth
RECURSIVE StoreRejects(_)
StoreRejects(v) ==
  /\ v.t \in {"obj", "arr"}
  /\ \/ v.k \in {"$in", "$nin", "$all"} /\ v.t = "arr" /\ Len(v.l) = 0
     \/ v.k \in {"$and", "$or"} /\ \E i \in 1..Len(v.l) : v.l[i] = Obj("", <<>>)
     \/ \E i \in 1..Len(v.l) : StoreRejects(v.l[i])

\* The values a path selects in a document: the member itself and, for an
\* array, its elements; 'f[*].key' selects the key of the objects in f
PathValues(doc, path) ==
  IF HasKey(doc, path)
  THEN LET v == Member(doc, path)
       IN {Keyed(v, "")} \cup (IF v.t = "arr" THEN SeqToSet(v.l) ELSE {})
  ELSE UNION { UNION { { Keyed(e.l[i], "") :
                           i \in { j \in 1..Len(e.l) : path = f \o "[*]." \o e.l[j].k } } :
                       e \in { el \in SeqToSet(Member(doc, f).l) : el.t = "obj" } } :
               f \in { g \in NodeKeys(doc) : Member(doc, g).t = "arr" } }

\* One operator of a field's condition against the selected values
OperatorHolds(op, values) ==
  CASE op.k = "$exists" -> (values # {}) <=> (op.n = 1)
    [] op.k = "$ne" -> Keyed(op, "") \notin values
    [] op.k = "$in" -> \E i \in 1..Len(op.l) : op.l[i] \in values
    [] op.k = "$nin" -> \A i \in 1..Len(op.l) : op.l[i] \notin values
    [] op.k = "$all" -> \A i \in 1..Len(op.l) : op.l[i] \in values
    [] OTHER -> FALSE

\* Whether a document matches a filter: every member of the filter holds
RECURSIVE Eval(_, _)
Eval(filter, doc) ==
  \A i \in 1..Len(filter.l) :
    LET c == filter.l[i]
    IN CASE c.k = "$and" -> \A j \in 1..Len(c.l) : Eval(c.l[j], doc)
         [] c.k = "$or" -> \E j \in 1..Len(c.l) : Eval(c.l[j], doc)
         [] c.t = "obj" -> \A j \in 1..Len(c.l) : OperatorHolds(c.l[j], PathValues(doc, c.k))
         [] OTHER -> Keyed(c, "") \in PathValues(doc, c.k)

\* getDocuments() for a filter
GetDocuments(d, filter) ==
  IF StoreRejects(filter) THEN FindResult("error", {})
  ELSE FindResult("objects", {k \in DOMAIN d : Eval(filter, d[k].content)})

----------------------------------------------------------------------------
(* One _rawFind(query, {type: 'content'}) followed from its call to its    *)
(* result, over a collection of documents with and without the fields.     *)

FilterFields == {"f", "g"}

\* The conditions a query may put on field x
FieldClauses(x) ==
  { Num(x, 5),
    Null(x),
    Obj(x, <<Null("$ne")>>),
    Obj(x, <<Arr("$in", <<>>)>>),
    Obj(x, <<Arr("$in", <<Num("", 5)>>)>>),
    Obj(x, <<Arr("$nin", <<>>)>>),
    Obj(x, <<Arr("$nin", <<Num("", 5)>>)>>),
    Obj(x, <<Arr("$all", <<>>)>>),
    Obj(x, <<Arr("$all", <<Num("", 1)>>)>>),
    Obj(x, <<Arr("$all", <<Obj("", <<Num("a", 1)>>), Obj("", <<Num("b", 2)>>)>>)>>),
    Obj(x, <<Arr("$all", <<Obj("", <<Num("a", 1), Num("b", 2)>>)>>)>>),
    Obj(x, <<Arr("$all", <<Obj("", <<Num("__FIELD__!!__", 1)>>)>>)>>) }

\* and the $or and $and lists it may carry
ListClauses ==
  { Arr("$or", <<Obj("", <<Null("f")>>), Obj("", <<Num("g", 5)>>)>>),
    Arr("$or", <<Obj("", <<Obj("f", <<Arr("$in", <<>>)>>)>>), Obj("", <<Num("g", 5)>>)>>),
    Arr("$and", <<Obj("", <<>>), Obj("", <<Num("g", 5)>>)>>) }

FilterClauses == ListClauses \cup UNION { FieldClauses(x) : x \in FilterFields }

\* A query: up to MaxClauses members with distinct keys, in any order
Filters ==
  { Obj("", l) :
      l \in { m \in UNION { [1..n -> FilterClauses] : n \in 1..MaxClauses } :
                \A i, j \in 1..Len(m) : i # j => m[i].k # m[j].k } }

FilterContent(k) ==
  CASE k = 1 -> Obj("", <<Num("f", 5)>>)
    [] k = 2 -> Obj("", <<Null("f")>>)
    [] k = 3 -> Obj("", <<>>)
    [] k = 4 -> Obj("", <<Num("f", 5), Num("g", 5)>>)
    [] k = 5 -> Obj("", <<Num("f", 6), Arr("g", <<Num("", 1), Num("", 5)>>)>>)
    [] OTHER -> Obj("", <<Arr("f", <<Obj("", <<Num("a", 1)>>), Obj("", <<Num("b", 2)>>)>>),
                          Num("g", 5)>>)

FilterDocs == [k \in 1..6 |-> [version |-> 1, content |-> FilterContent(k)]]

InitRawFind == InitWith(FilterDocs)

RawFindUnchanged ==
  UNCHANGED <<docs, nextKey, pc, call, rd, upd, res, passes, dfs, reissued, lost, conn,
              queryBackup, fnd, pu, more>>

\* _rawFind is called; getCollectionConnection resolves with the connection
RawFindBegin ==
  /\ rf.pc = "idle"
  /\ \E q \in Filters : rf' = [NoRawFind EXCEPT !.pc = "rewrite", !.query = q, !.open = 1]
  /\ RawFindUnchanged

\* the loop over the query: return [] or a throw (both close the connection),
\* or findOperation.filter(query)
RawFindRewrite ==
  /\ rf.pc = "rewrite"
  /\ LET st == Translate(rf.query)
     IN rf' = IF st.out = "go"
              THEN [rf EXCEPT !.pc = "getDocuments", !.filter = st.query]
              ELSE [rf EXCEPT !.pc = "done", !.open = 0,
                              !.result = IF st.out = "empty"
                                         THEN FindResult("objects", {})
                                         ELSE FindResult("error", {})]
  /\ RawFindUnchanged

\* findOperation.getDocuments(), then the connection is closed
RawFindGetDocuments ==
  /\ rf.pc = "getDocuments"
  /\ rf' = [rf EXCEPT !.pc = "done", !.submitted = TRUE, !.open = 0,
                      !.result = GetDocuments(docs, rf.filter)]
  /\ RawFindUnchanged

NextRawFind == RawFindBegin \/ RawFindRewrite \/ RawFindGetDocuments

SpecRawFind == InitRawFind /\ [][NextRawFind]_vars

----------------------------------------------------------------------------
(* Properties of the filter rewriting. *)

\* the documents that lack x or hold null under x
NullOrAbsent(x) ==
  { k \in DOMAIN docs : ~HasKey(docs[k].content, x) \/ Member(docs[k].content, x).t = "null" }

\* C12: null equality: the filter submitted for {f: null} matches the
\* documents lacking f and those whose f is null, and no document whose f is
\* present and not null.
C12_NullEquality ==
  \A x \in FilterFields :
    (rf.pc = "done" /\ rf.query = Obj("", <<Null(x)>>))
      => rf.submitted /\ rf.result = FindResult("objects", NullOrAbsent(x))

\* {f: null} over {f: 5}, {f: null}, {}: the last two are returned
C12_Witness ==
  /\ rf.pc = "done" /\ rf.query = Obj("", <<Null("f")>>)
  /\ {2, 3} \subseteq rf.result.keys /\ 1 \notin rf.result.keys

\* C13: negated null: {f: {$ne: null}} is submitted as
\* {$and: [{f: {$exists: true}}, {f: {$ne: null}}]} and returns exactly the
\* documents that hold f with a value other than null.
C13_NotEqualNull ==
  \A x \in FilterFields :
    (rf.pc = "done" /\ rf.query = Obj("", <<Obj(x, <<Null("$ne")>>)>>))
      => /\ rf.submitted
         /\ rf.filter = Obj("", <<Arr("$and", <<Obj("", <<Obj(x, <<Bool("$exists", TRUE)>>)>>),
                                                Obj("", <<Obj(x, <<Null("$ne")>>)>>)>>)>>)
         /\ rf.result = FindResult("objects", DOMAIN docs \ NullOrAbsent(x))

\* {f: {$ne: null}} over {f: 5}, {f: null}, {}: only the first is returned
C13_Witness ==
  /\ rf.pc = "done" /\ rf.query = Obj("", <<Obj("f", <<Null("$ne")>>)>>)
  /\ 1 \in rf.result.keys /\ 2 \notin rf.result.keys /\ 3 \notin rf.result.keys

\* a top-level field of the query whose $in or $all operand is an empty list
EmptyInOrAll(query) ==
  \E i \in 1..Len(query.l) :
    /\ query.l[i].t = "obj"
    /\ \E j \in 1..Len(query.l[i].l) :
         LET op == query.l[i].l[j]
         IN op.k \in {"$in", "$all"} /\ op.t = "arr" /\ Len(op.l) = 0

\* C14: when the $in or $all operand of any field of the query is an empty
\* list, _rawFind returns the empty result, submits no filter, fetches no
\* documents and has closed its connection, whatever the other fields are.
C14_EmptyListShortCircuits ==
  (rf.pc = "done" /\ EmptyInOrAll(rf.query))
    => rf.result = FindResult("objects", {}) /\ ~rf.submitted /\ rf.open = 0

\* C15: a $nin with an empty list contributes no constraint: for a query of
\* plain equalities and one {x: {$nin: []}}, the documents returned are those
\* the equalities alone select.
C15_EmptyNinNoConstraint ==
  \A x \in FilterFields :
    ( /\ rf.pc = "done"
      /\ HasKey(rf.query, x) /\ Member(rf.query, x) = Obj(x, <<Arr("$nin", <<>>)>>)
      /\ \A i \in 1..Len(rf.query.l) : rf.query.l[i].k # x => rf.query.l[i].t = "num" )
      => rf.result = GetDocuments(docs, Without(rf.query, x))

\* an element of a $all operand that is a plain object
PlainObject(e) == e.t = "obj" /\ Len(e.l) > 0 /\ ~HasField(e)

\* C16: $all over plain objects: the submitted filter is a $and that holds,
\* for each object of the operand and each key of it, the condition
\* 'field[*].key = value' with that object's own key and value.
C16_AllOfObjects ==
  \A x \in FilterFields :
    \A c \in FieldClauses(x) :
      ( /\ rf.pc = "done" /\ rf.query = Obj("", <<c>>)
        /\ c.t = "obj" /\ c.l[1].k = "$all" /\ Len(c.l[1].l) > 0
        /\ \A i \in 1..Len(c.l[1].l) : PlainObject(c.l[1].l[i]) )
        => /\ rf.submitted /\ HasKey(rf.filter, "$and")
           /\ \A i \in 1..Len(c.l[1].l) :
                \A j \in 1..Len(c.l[1].l[i].l) :
                  LET m == c.l[1].l[i].l[j]
                  IN Obj("", <<Keyed(m, x \o "[*]." \o m.k)>>)
                       \in SeqToSet(Member(rf.filter, "$and").l)

\* A form the store does not take literally, in the filter object o that is
\* an element of the list parent (or the root): an equality to null outside
\* its expansion, a $ne: null outside its expansion, an empty $in, $nin or
\* $all list, an empty object in a $and, or such a form further down
RECURSIVE Unexpanded(_, _)
Unexpanded(o, parent) ==
  \E i \in 1..Len(o.l) :
    LET m == o.l[i]
    IN \/ /\ m.t = "null"
          /\ ~( /\ parent.k = "$or"
                /\ Obj("", <<Obj(m.k, <<Bool("$exists", FALSE)>>)>>) \in SeqToSet(parent.l) )
       \/ /\ m.t = "obj" /\ HasKey(m, "$ne") /\ Member(m, "$ne").t = "null"
          /\ ~( /\ parent.k = "$and"
                /\ Obj("", <<Obj(m.k, <<Bool("$exists", TRUE)>>)>>) \in SeqToSet(parent.l) )
       \/ /\ m.t = "obj"
          /\ \E j \in 1..Len(m.l) :
               m.l[j].k \in {"$in", "$nin", "$all"} /\ m.l[j].t = "arr" /\ Len(m.l[j].l) = 0
       \/ /\ m.k \in {"$and", "$or"} /\ m.t = "arr"
          /\ \E j \in 1..Len(m.l) :
               \/ m.k = "$and" /\ m.l[j] = Obj("", <<>>)
               \/ m.l[j].t = "obj" /\ Unexpanded(m.l[j], m)

\* C17: no filter handed to the store holds, at any depth, an unexpanded
\* equality to null, an unexpanded $ne: null, an empty object as a $and
\* element, or an empty $in / $nin / $all list.
C17_SubmittedFilterLiteral ==
  rf.pc = "getDocuments" => ~Unexpanded(rf.filter, Obj("", <<>>))

----------------------------------------------------------------------------
(* findOneAndUpdate with $inc and $addToSet/$each: two callers update      *)
(* documents that hold, or lack, the number and the array the update names.*)

\* {a: 1, b: [1, 2]}, a document without the number, and documents with
\* neither
TransformContent(k) ==
  IF k = 1 THEN ("_id" :> 1 @@ "a" :> 1 @@ "b" :> <<1, 2>>)
  ELSE IF k = 2 THEN ("_id" :> 2 @@ "b" :> <<1>>)
  ELSE ("_id" :> k)

TransformDocs(n) == [k \in 1..n |-> [version |-> 1, content |-> TransformContent(k)]]

InitTransform == \E n \in 1..MaxDocs : InitWith(TransformDocs(n))

\* update = {$inc: inc, $addToSet: {f: {$each: [...]}}}
IncAddToSet(inc, addToSet) == Update(Empty, {}, inc, addToSet, Empty)

TransformCalls ==
  { Call("update", ById(1), IncAddToSet("a" :> 5, "b" :> <<2, 3>>), {}, FALSE),
    Call("update", ById(1), IncAddToSet("a" :> 5, "b" :> <<2>>), {}, FALSE),
    Call("update", ById(1), IncAddToSet("a" :> 5, Empty), {}, FALSE),
    Call("update", ById(1), IncAddToSet(Empty, "b" :> <<3>>), {}, FALSE),
    Call("update", ById(2), IncAddToSet("a" :> 5, Empty), {}, FALSE),
    Call("update", ById(2), IncAddToSet("a" :> 2, "b" :> <<1, 3>>), {}, FALSE) }

NextTransform ==
  \E p \in Procs : BeginFrom(p, TransformCalls) \/ FURead(p) \/ FUReplace(p)

SpecTransform == InitTransform /\ [][NextTransform]_vars

\* the caller holds the replacing document of an update with these operators
Replacing(p, ops) ==
  /\ pc[p] = "fu_replace"
  /\ \A o \in {"$inc", "$addToSet"} :
       o \in ops <=> DOMAIN (IF o = "$inc" THEN call[p].update.inc
                             ELSE call[p].update.addToSet) # {}

\* new is old followed by exactly the candidates old does not hold, each once
FollowedByNew(old, new, cands) ==
  /\ Len(new) >= Len(old)
  /\ SubSeq(new, 1, Len(old)) = old
  /\ {new[i] : i \in (Len(old) + 1)..Len(new)} = SeqToSet(cands) \ SeqToSet(old)
  /\ Cardinality({new[i] : i \in (Len(old) + 1)..Len(new)}) = Len(new) - Len(old)

\* the document holds a number under every incremented field and an array
\* under every $addToSet field
HoldsTargets(content, u) ==
  /\ \A f \in DOMAIN u.inc : Has(content, f) /\ ~IsNaN(content[f])
  /\ \A f \in DOMAIN u.addToSet : Has(content, f)

\* C18: for an update carrying both $inc and $addToSet/$each on a document
\* that holds the targets, the replacing document has every incremented
\* field equal to its old value plus the delta, every target array equal to
\* the old array followed by exactly the candidates not already present, and
\* every other field as it was: it has the fields of the old document and no
\* others.
C18_IncAndAddToSetCombine ==
  \A p \in Procs :
    Replacing(p, {"$inc", "$addToSet"}) /\ HoldsTargets(rd[p].content, call[p].update) =>
      LET old == rd[p].content
          u == call[p].update
      IN /\ DOMAIN upd[p] = DOMAIN old
         /\ \A f \in DOMAIN old :
              IF f \in DOMAIN u.inc
              THEN ~IsNaN(upd[p][f]) /\ upd[p][f] = old[f] + u.inc[f]
              ELSE IF f \in DOMAIN u.addToSet
              THEN FollowedByNew(old[f], upd[p][f], u.addToSet[f])
              ELSE upd[p][f] = old[f]

\* The example of the specification: {a: 1, b: [1, 2]} with
\* {$inc: {a: 5}, $addToSet: {b: {$each: [2, 3]}}} gives {a: 6, b: [1, 2, 3]}.
C18_Example ==
  \A p \in Procs :
    /\ Replacing(p, {"$inc", "$addToSet"})
    /\ rd[p].content = TransformContent(1)
    /\ call[p].update = IncAddToSet("a" :> 5, "b" :> <<2, 3>>)
    => upd[p] = ("_id" :> 1 @@ "a" :> 6 @@ "b" :> <<1, 2, 3>>)

\* C19: $inc on a field that the stored document lacks treats the current
\* value as 0: in the replacing document the field equals the delta.
C19_IncAbsentIsDelta ==
  \A p \in Procs :
    pc[p] = "fu_replace" =>
      \A f \in DOMAIN call[p].update.inc :
        ~Has(rd[p].content, f) =>
          /\ Has(upd[p], f)
          /\ ~IsNaN(upd[p][f])
          /\ upd[p][f] = call[p].update.inc[f]

----------------------------------------------------------------------------
(* findOneAndUpdate with {$pullAll: {field: candidates}} on a document     *)
(* whose field holds an array of one-key objects and numbers.              *)

MaxElems == 3

MaxCands == 2

\* array elements: objects {a: 1}, {a: 2}, {b: 1} and the numbers 1, 2
Elements == {Obj("", <<Num("a", 1)>>), Obj("", <<Num("a", 2)>>), Obj("", <<Num("b", 1)>>),
             Num("", 1), Num("", 2)}

SeqsUpTo(S, n) == UNION {[1..m -> S] : m \in 0..n}

PullArrays == SeqsUpTo(Elements, MaxElems)

PullCands == SeqsUpTo(Elements \ {Obj("", <<Num("a", 2)>>)}, MaxCands)

\* Object.keys(v)[0]: the first key of an object, undefined (no key) otherwise
FirstKey(v) == IF v.t = "obj" /\ Len(v.l) > 0 THEN <<v.l[1].k>> ELSE <<>>

\* rsltArray.forEach: the entries whose first key differs from the candidate's
KeptFor(rsltArray, updt) ==
  SelectSeq(rsltArray, LAMBDA entry : FirstKey(entry) # FirstKey(updt))

\* updtArray.forEach: every object candidate pushes the entries it keeps to
\* the one newArray; a candidate that is not an object pushes nothing
RECURSIVE PullEach(_, _, _, _)
PullEach(rsltArray, updtArray, i, newArray) ==
  IF i > Len(updtArray) THEN newArray
  ELSE PullEach(rsltArray, updtArray, i + 1,
                IF IsObject(updtArray[i])
                THEN newArray \o KeptFor(rsltArray, updtArray[i])
                ELSE newArray)

PullAllUnchanged ==
  UNCHANGED <<docs, nextKey, pc, call, rd, upd, res, passes, dfs, reissued, lost, conn,
              queryBackup, fnd, rf, more>>

\* the document read holds the array, the update the candidates
PullAllBegin ==
  /\ pu.pc = "idle"
  /\ \E a \in PullArrays, c \in PullCands :
       pu' = [NoPullAll EXCEPT !.pc = "stage", !.array = a, !.cands = c]
  /\ PullAllUnchanged

\* the $pullAll stage: pullAllUpdt is set when an entry is pushed
PullAllStage ==
  /\ pu.pc = "stage"
  /\ LET newArray == PullEach(pu.array, pu.cands, 1, <<>>)
     IN pu' = [pu EXCEPT !.pc = "write", !.newArray = newArray,
                         !.pullAllUpdt = (Len(newArray) > 0)]
  /\ PullAllUnchanged

\* updateObj: with pullAllUpdt, _.set(oldContent, field, newArray); without,
\* _.merge(oldContent, update) with the $pullAll key still in update
PullAllWrite ==
  /\ pu.pc = "write"
  /\ pu' = [pu EXCEPT !.pc = "done",
                      !.written = IF pu.pullAllUpdt THEN pu.newArray ELSE pu.array,
                      !.operator = ~pu.pullAllUpdt]
  /\ PullAllUnchanged

NextPullAll == PullAllBegin \/ PullAllStage \/ PullAllWrite

SpecPullAll == InitWith(InitDocs(0)) /\ [][NextPullAll]_vars

\* an object matches a candidate object with the same first key, a number
\* matches an equal number
PullMatches(entry, updt) ==
  IF entry.t = "obj" /\ updt.t = "obj" THEN FirstKey(entry) = FirstKey(updt)
  ELSE entry = updt

\* the array without the elements that match any candidate
Remainder(array, cands) ==
  SelectSeq(array, LAMBDA entry : \A i \in 1..Len(cands) : ~PullMatches(entry, cands[i]))

\* C20: after a $pullAll update the array of the written document is the
\* original array without the elements that match any candidate (objects by
\* first key, numbers by equality), the others in their order and once each.
C20_PullAllRemovesMatches ==
  pu.pc = "done" => pu.written = Remainder(pu.array, pu.cands)

\* One candidate object that leaves a remainder: the elements with its first
\* key are removed and the others stay in their order.
C20_OneObjectCandidate ==
  /\ pu.pc = "done"
  /\ Len(pu.cands) = 1
  /\ pu.cands[1].t = "obj"
  /\ Remainder(pu.array, pu.cands) # <<>>
  => pu.written = Remainder(pu.array, pu.cands)

----------------------------------------------------------------------------
(* findOneAndUpdate from 'End of Transform Update' to replaceOne, for a    *)
(* found document and an update whose operator keys are gone.  Values are  *)
(* numbers and objects; no caller in the repository passes fieldName, the  *)
(* updates carry none.                                                     *)

\* typeof v === 'object' && v !== null && Object.keys(v).length === 0
IsEmptyObject(v) == v.t \in {"obj", "arr"} /\ Len(v.l) = 0

\* the empty-object pass: _.unset(oldContent, item) for every item of the
\* update whose value is an empty object, updatedAt excepted
UnsetEmpty(oldContent, update) ==
  [oldContent EXCEPT !.l =
     SelectSeq(oldContent.l,
               LAMBDA e : ~\E i \in 1..Len(update.l) :
                            /\ update.l[i].k = e.k
                            /\ update.l[i].k # "updatedAt"
                            /\ IsEmptyObject(update.l[i]))]

\* _.merge(object, source): a source object is merged into the object under
\* the same key, or copied where there is none; any other value is assigned
RECURSIVE MergeFrom(_, _, _)
MergeFrom(object, source, i) ==
  IF i > Len(source.l) THEN object
  ELSE LET srcValue == source.l[i]
           newValue ==
             IF srcValue.t = "obj"
             THEN (IF HasKey(object, srcValue.k) /\ Member(object, srcValue.k).t = "obj"
                   THEN MergeFrom(Member(object, srcValue.k), srcValue, 1)
                   ELSE MergeFrom(Obj(srcValue.k, <<>>), srcValue, 1))
             ELSE srcValue
       IN MergeFrom(Put(object, newValue), source, i + 1)

MergeDeep(object, source) == MergeFrom(object, source, 1)

\* the item _metadata of the set-or-merge loop
SetMetadata(oldContent, item) ==
  IF HasKey(oldContent, "_metadata")
  THEN (IF /\ HasKey(Member(oldContent, "_metadata"), "class_permissions")
           /\ HasKey(item, "class_permissions")
        THEN Put(oldContent, Put(Member(oldContent, "_metadata"),
                                 Member(item, "class_permissions")))
        ELSE Put(oldContent, MergeDeep(Member(oldContent, "_metadata"), item)))
  ELSE Put(oldContent, item)

\* Object.keys(update).forEach of the set-or-merge loop
RECURSIVE SetOrMerge(_, _, _)
SetOrMerge(oldContent, update, i) ==
  IF i > Len(update.l) THEN oldContent
  ELSE SetOrMerge(IF update.l[i].k = "_metadata"
                  THEN SetMetadata(oldContent, update.l[i])
                  ELSE Put(oldContent, update.l[i]),
                  update, i + 1)

\* updateObj: the set-or-merge loop with pullAllUpdt or update['_metadata'],
\* _.merge(oldContent, update) otherwise
UpdateObj(oldContent, update, pullAllUpdt) ==
  IF pullAllUpdt \/ HasKey(update, "_metadata")
  THEN SetOrMerge(oldContent, update, 1)
  ELSE MergeDeep(oldContent, update)

\* the values of a plain key: a number, {} or an object
PlainValues(k, n, sub) == {Num(k, n), Obj(k, <<>>), Obj(k, <<Num(sub, n)>>)}

\* the _metadata a schema document holds, and the _metadata of an update
StoredMetadata ==
  LET cp == Obj("class_permissions", <<Num("r", 1)>>)
      idx == Obj("indexes", <<Num("i", 1)>>)
  IN {Obj("_metadata", l) : l \in {<<>>, <<cp>>, <<idx>>, <<cp, idx>>}}

UpdateMetadata ==
  LET cp == Obj("class_permissions", <<Num("w", 1)>>)
      fo == Obj("fields_options", <<Num("f", 1)>>)
      idx == Obj("indexes", <<Num("j", 1)>>)
  IN {Obj("_metadata", l) : l \in {<<>>, <<cp>>, <<fo>>, <<cp, fo>>, <<idx>>}}

\* an object of the members chosen, each present or not
Choices(S) == {<<>>} \cup {<<v>> : v \in S}

OldContents ==
  {Obj("", <<Num("_id", 1)>> \o a \o m) :
     a \in Choices(PlainValues("k", 1, "x")), m \in Choices(StoredMetadata)}

Updates ==
  {Obj("", a \o m) : a \in Choices(PlainValues("k", 2, "y")), m \in Choices(UpdateMetadata)}

WriteUnchanged ==
  UNCHANGED <<docs, nextKey, pc, call, rd, upd, res, passes, dfs, reissued, lost, conn,
              queryBackup, fnd, rf, pu, ix, pj, sc, rest>>

\* the document was found and the operator stages are over
WriteBegin ==
  /\ wr.pc = "idle"
  /\ \E o \in OldContents, u \in Updates :
       wr' = [NoWrite EXCEPT !.pc = "unset", !.oldContent = o, !.update = u, !.updateObj = o]
  /\ WriteUnchanged

\* 'Check for empty object and remove it from original'
WriteUnsetEmpty ==
  /\ wr.pc = "unset"
  /\ wr' = [wr EXCEPT !.pc = "build", !.updateObj = UnsetEmpty(wr.updateObj, wr.update)]
  /\ WriteUnchanged

\* updateObj is built and handed to replaceOne
WriteBuild ==
  /\ wr.pc = "build"
  /\ wr' = [wr EXCEPT !.pc = "done", !.updateObj = UpdateObj(wr.updateObj, wr.update, FALSE)]
  /\ WriteUnchanged

NextWrite == WriteBegin \/ WriteUnsetEmpty \/ WriteBuild

SpecWrite == InitWith(InitDocs(1)) /\ [][NextWrite]_vars

\* C21: a plain update key whose value is an empty object is absent from the
\* document that findOneAndUpdate writes.
C21_EmptyObjectDeletesKey ==
  wr.pc = "done" =>
    \A i \in 1..Len(wr.update.l) :
      wr.update.l[i].k # "_metadata" /\ IsEmptyObject(wr.update.l[i])
        => ~HasKey(wr.updateObj, wr.update.l[i].k)

\* the sub-key s of the written _metadata is v
SubKeyIs(s, v) ==
  /\ HasKey(wr.updateObj, "_metadata")
  /\ HasKey(Member(wr.updateObj, "_metadata"), s)
  /\ Member(Member(wr.updateObj, "_metadata"), s) = v

\* C22: when the update carries _metadata and the stored document has
\* _metadata, the written _metadata keeps every stored sub-key the update
\* does not name, holds class_permissions as the update gives it when both
\* sides define it, and holds every other sub-key of the update merged key by
\* key into the stored one.
C22_MetadataMerged ==
  wr.pc = "done" /\ HasKey(wr.update, "_metadata") /\ HasKey(wr.oldContent, "_metadata") =>
    LET stored == Member(wr.oldContent, "_metadata")
        up == Member(wr.update, "_metadata")
    IN /\ \A s \in NodeKeys(stored) \ NodeKeys(up) : SubKeyIs(s, Member(stored, s))
       /\ \A s \in NodeKeys(up) :
            IF s = "class_permissions" \/ ~HasKey(stored, s)
            THEN SubKeyIs(s, Member(up, s))
            ELSE SubKeyIs(s, MergeDeep(Member(stored, s), Member(up, s)))

----------------------------------------------------------------------------
(* OracleStorageAdapter.createObject: two callers insert objects whose _id *)
(* may be held already; the store's insertOne may also fail otherwise.     *)

\* a store error with its errorNum
OraError(n) == Result("ora", Empty, n)

\* the errorNums of the store errors of other kinds that are drawn
\* (ORA-03113: the connection is lost)
OtherErrors == {3113}

\* { ops: [oracleObject] }
Ops(object) == Result("ops", object, 0)

\* Parse.Error(Parse.Error.DUPLICATE_VALUE, ...)
DuplicateValue == Result("parse", Empty, 137)

\* the catch of createObject without the mapping of errorNum 1
CreateObjectRethrows(r, object) ==
  IF r.kind = "inserted" THEN Ops(object) ELSE r

\* createObject after insertOne settled: the return, or the catch that maps
\* errorNum 1 and hands every error to handleError, which throws it
CreateObjectResult(r, object) ==
  IF r.kind = "inserted" THEN Ops(object)
  ELSE IF r = DuplicateError THEN DuplicateValue
  ELSE r

CreateObjects ==
  { "_id" :> 1 @@ "a" :> 5, "_id" :> 2 @@ "a" :> 5,
    "_id" :> 3 @@ "a" :> 5, "_id" :> 3 @@ "a" :> 6 }

\* createObject: the object is transformed and handed to collection.insertOne
CreateObjectBegin(p) ==
  /\ pc[p] = "idle"
  /\ \E o \in CreateObjects :
       /\ call' = [call EXCEPT ![p] = Call("createObject", NoQuery, SetFields(o), {}, FALSE)]
       /\ upd' = [upd EXCEPT ![p] = o]
  /\ Goto(p, "insert")
  /\ UNCHANGED <<docs, nextKey, rd, res, passes, dfs, reissued, lost, conn, queryBackup, fnd,
                 rf, pu, more>>

\* the store's insertOne fails with an error that is no uniqueness violation
InsertOneFails(p) ==
  /\ pc[p] = "insert"
  /\ \E n \in OtherErrors : Settle(p, OraError(n))
  /\ UNCHANGED <<docs, nextKey, call, rd, upd, passes, dfs, reissued, lost, conn, queryBackup,
                 fnd, rf, pu, more>>

\* createObject returns or throws
CreateObjectSettle(p) ==
  /\ pc[p] = "done"
  /\ call[p].op = "createObject"
  /\ pc' = [pc EXCEPT ![p] = "returned"]
  /\ res' = [res EXCEPT ![p] = CreateObjectResult(res[p], upd[p])]
  /\ UNCHANGED <<docs, nextKey, call, rd, upd, passes, dfs, reissued, lost, conn, queryBackup,
                 fnd, rf, pu, more>>

NextCreate ==
  \E p \in Procs :
    CreateObjectBegin(p) \/ InsertOneStep(p) \/ InsertOneFails(p) \/ CreateObjectSettle(p)

SpecCreate == Init /\ [][NextCreate]_vars

\* the documents that hold the value v under _id
Holders(d, v) == {k \in DOMAIN d : Has(d[k].content, "_id") /\ d[k].content["_id"] = v}

\* C23: a createObject whose object carries an _id value that a document
\* holds already leaves the collection as it is and rejects with
\* DUPLICATE_VALUE (or with the store's error when the insert failed for
\* another reason), and DUPLICATE_VALUE is thrown for no other failure; the
\* collection holds exactly one document with the value of a createObject
\* that returned or was rejected as a duplicate.
C23_DuplicateValue ==
  /\ [](\A p \in Procs :
          pc[p] = "returned" /\ res[p].kind \in {"ops", "parse"}
            => Cardinality(Holders(docs, upd[p]["_id"])) = 1)
  /\ [][\A p \in Procs :
          /\ pc[p] = "insert" /\ pc'[p] = "done" /\ DuplicateId(docs, upd[p])
               => docs' = docs /\ res'[p] \in {DuplicateError} \cup {OraError(n) : n \in OtherErrors}
          /\ pc[p] = "done" /\ pc'[p] = "returned"
               => (res'[p] = DuplicateValue <=> res[p] = DuplicateError)
                  /\ (res[p].kind = "ora" => res'[p] = res[p])]_vars

\* a second createObject with the same _id was rejected as a duplicate
C23_Witness ==
  \E p, q \in Procs :
    /\ p # q
    /\ pc[p] = "returned" /\ res[p] = Ops(upd[p])
    /\ pc[q] = "returned" /\ res[q] = DuplicateValue
    /\ upd[q]["_id"] = upd[p]["_id"]

----------------------------------------------------------------------------
(* The index operations of a collection: _createIndex, dropIndex and       *)
(* getIndexes, one call at a time.  An entry of this.indexes is known by   *)
(* its first key.  Other servers create indexes in the same store.         *)

MaxIndexes == 3

\* indexSpec = {name, fields: [{path}]} as the adapter builds it
IndexSpecs == { [name |-> "a", path |-> "a"], [name |-> "b_1", path |-> "b"],
                [name |-> "_id", path |-> "_id"] }

IndexNames == {sp.name : sp \in IndexSpecs}

\* ORA-40733: the index exists already
IndexExists == 40733

\* 'return Promise.resolve'
PromiseResolve == Result("function", Empty, 0)

\* the result of the store's dropIndex
Dropped(b) == Result("dropped", Empty, IF b THEN 1 ELSE 0)

\* indexSpec.fields[0].path after this.indexes.find(...): its callback
\* renames _id to _id_ when it runs, that is when the list is not empty
PathSeen(indexes, path) == IF path = "_id" /\ Len(indexes) > 0 THEN "_id_" ELSE path

\* this.indexes.find(item => Object.keys(item)[0] === key)
Found(indexes, key) == \E i \in 1..Len(indexes) : indexes[i] = key

\* the key of the entry pushed: indexSpec.name, _id_ for the path _id
EntryKey(name, path) == IF path = "_id" THEN "_id_" ELSE name

\* a catch that resolves whatever the error
CreateIndexSwallows(err, found) ==
  IF err = 0 \/ ~found THEN PromiseResolve ELSE Undefined

\* what _createIndex resolves or rejects with
CreateIndexResult(err, found) ==
  IF err = 0 THEN PromiseResolve
  ELSE IF err = IndexExists THEN (IF found THEN Undefined ELSE PromiseResolve)
  ELSE OraError(err)

\* this.indexes after _createIndex
CreateIndexList(indexes, name, path, err) ==
  IF err = 0 THEN Append(indexes, EntryKey(name, path))
  ELSE IF err = IndexExists /\ ~Found(indexes, PathSeen(indexes, path))
  THEN Append(indexes, EntryKey(name, PathSeen(indexes, path)))
  ELSE indexes

\* splice of every entry with that key
SplicedAll(indexes, key) == SelectSeq(indexes, LAMBDA e : e # key)

\* this.indexes.splice(this.indexes.indexOf(found), 1)
Spliced(indexes, key) ==
  IF ~Found(indexes, key) THEN indexes
  ELSE LET i == CHOOSE j \in 1..Len(indexes) :
                  indexes[j] = key /\ \A h \in 1..(j - 1) : indexes[h] # key
       IN SubSeq(indexes, 1, i - 1) \o SubSeq(indexes, i + 1, Len(indexes))

IndexUnchanged ==
  UNCHANGED <<docs, nextKey, pc, call, rd, upd, res, passes, dfs, reissued, lost, conn,
              queryBackup, fnd, rf, pu, wr, pj, sc, rest>>

\* another server creates an index in the store
StoreIndexCreated ==
  /\ \E n \in IndexNames : n \notin ix.soda /\ ix' = [ix EXCEPT !.soda = ix.soda \cup {n}]
  /\ IndexUnchanged

\* _createIndex(indexSpec) or dropIndex(indexName) is called
IndexBegin ==
  /\ ix.pc = "idle"
  /\ Len(ix.indexes) < MaxIndexes
  /\ \/ \E sp \in IndexSpecs :
          ix' = [ix EXCEPT !.pc = "create", !.op = "create", !.name = sp.name,
                           !.path = sp.path, !.err = 0, !.res = Pending]
     \/ \E n \in IndexNames \cup {"_id_"} :
          ix' = [ix EXCEPT !.pc = "drop", !.op = "drop", !.name = n, !.path = "",
                           !.err = 0, !.res = Pending]
  /\ IndexUnchanged

\* _createIndex: the store's createIndex, then the push or the catch
CreateIndexStep ==
  /\ ix.pc = "create"
  /\ \E err \in {IF ix.name \in ix.soda THEN IndexExists ELSE 0} \cup OtherErrors :
       ix' = [ix EXCEPT !.pc = "idle", !.err = err,
                        !.soda = IF err = 0 THEN ix.soda \cup {ix.name} ELSE ix.soda,
                        !.indexes = CreateIndexList(ix.indexes, ix.name, ix.path, err),
                        !.res = CreateIndexResult(err, Found(ix.indexes,
                                                           PathSeen(ix.indexes, ix.path)))]
  /\ IndexUnchanged

\* dropIndex: the store's dropIndex, then the entry is spliced
DropIndexStep ==
  /\ ix.pc = "drop"
  /\ \E err \in {0} \cup OtherErrors :
       ix' = [ix EXCEPT !.pc = "idle", !.err = err,
                        !.soda = IF err = 0 THEN ix.soda \ {ix.name} ELSE ix.soda,
                        !.indexes = IF err = 0 THEN Spliced(ix.indexes, ix.name)
                                    ELSE ix.indexes,
                        !.res = IF err = 0 THEN Dropped(ix.name \in ix.soda)
                                ELSE OraError(err)]
  /\ IndexUnchanged

\* getIndexes(className)
GetIndexes ==
  /\ ix.pc = "idle"
  /\ Len(ix.indexes) < MaxIndexes
  /\ ix' = [ix EXCEPT !.op = "getIndexes", !.name = "", !.path = "", !.err = 0,
                      !.indexes = IF Found(ix.indexes, "_id_") THEN ix.indexes
                                  ELSE Append(ix.indexes, "_id_"),
                      !.res = Array(Len(ix.indexes) + IF Found(ix.indexes, "_id_") THEN 0 ELSE 1)]
  /\ IndexUnchanged

NextIndex ==
  StoreIndexCreated \/ IndexBegin \/ CreateIndexStep \/ DropIndexStep \/ GetIndexes

SpecIndex == InitWith(InitDocs(1)) /\ [][NextIndex]_vars

\* an index operation ends
IndexSettles == ix.pc \in {"create", "drop"} /\ ix'.pc = "idle"

----------------------------------------------------------------------------
(* The projection at the end of OracleStorageAdapter.find: the keys that   *)
(* were not asked for are deleted from every object of the result.  Field  *)
(* names are not empty.                                                    *)

MaxObjects == 2

\* the objects of a result, as oracleObjectToParseObject returns them
ProjectObjects ==
  { "objectId" :> 1 @@ "createdAt" :> 1 @@ "updatedAt" :> 2 @@ "a" :> 1 @@ "b" :> 2
      @@ "_rperm" :> 3 @@ "_wperm" :> 4,
    "objectId" :> 2 @@ "a" :> 1,
    "objectId" :> 3 @@ "b" :> 2 @@ "c" :> 5 @@ "_wperm" :> 4,
    "objectId" :> 4 @@ "updatedAt" :> 2 }

\* the keys option: undefined, or a list of field names
ProjectKeys ==
  {[defined |-> FALSE, set |-> {}]}
    \cup {[defined |-> TRUE, set |-> ks] : ks \in SUBSET {"a", "b", "objectId", "z"}}

\* new Set(oracleKeys) as it is
OracleKeysOnly(keys) == keys

\* new Set(oracleKeys) with createdAt, updatedAt and objectId added
OracleKeysSet(keys) == keys \cup {"createdAt", "updatedAt", "objectId"}

\* the loop over diff: every key outside the set is deleted, _rperm and
\* _wperm excepted
Projected(myObject, keys) ==
  UnsetAll(myObject, (DOMAIN myObject \ OracleKeysSet(keys)) \ {"_rperm", "_wperm"})

\* 'Delete all fields not in oracleKeys'
Project(result, keys) ==
  IF ~keys.defined THEN result
  ELSE [r \in 1..Len(result) |-> Projected(result[r], keys.set)]

ProjectUnchanged ==
  UNCHANGED <<docs, nextKey, pc, call, rd, upd, res, passes, dfs, reissued, lost, conn,
              queryBackup, fnd, rf, pu, wr, ix, sc, rest>>

\* find is called with keys and the store has answered
ProjectBegin ==
  /\ pj.pc = "idle"
  /\ \E ks \in ProjectKeys, os \in SeqsUpTo(ProjectObjects, MaxObjects) :
       pj' = [NoProjection EXCEPT !.pc = "then", !.keys = ks, !.objects = os]
  /\ ProjectUnchanged

\* the end of the .then of find
ProjectThen ==
  /\ pj.pc = "then"
  /\ pj' = [pj EXCEPT !.pc = "done", !.result = Project(pj.objects, pj.keys)]
  /\ ProjectUnchanged

NextProject == ProjectBegin \/ ProjectThen

SpecProject == InitWith(InitDocs(1)) /\ [][NextProject]_vars

AllowList == {"createdAt", "updatedAt", "objectId", "_rperm", "_wperm"}

\* C25: when a key set is requested, every object that find returns holds
\* exactly those of its keys that are in the requested set or in the
\* allow-list, with their values.
C25_Projection ==
  pj.pc = "done" /\ pj.keys.defined =>
    /\ Len(pj.result) = Len(pj.objects)
    /\ \A r \in 1..Len(pj.objects) :
         /\ DOMAIN pj.result[r] = DOMAIN pj.objects[r] \cap (pj.keys.set \cup AllowList)
         /\ \A k \in DOMAIN pj.result[r] : pj.result[r][k] = pj.objects[r][k]

\* an object lost a key that was not asked for and kept the keys of the
\* allow-list that were not asked for either
C25_Witness ==
  /\ pj.pc = "done" /\ pj.keys.defined /\ pj.keys.set = {"a", "z"}
  /\ \E r \in 1..Len(pj.objects) :
       /\ Has(pj.objects[r], "b") /\ ~Has(pj.result[r], "b")
       /\ Has(pj.result[r], "_rperm") /\ Has(pj.result[r], "objectId")

----------------------------------------------------------------------------
(* deleteObjectsByQuery over several matching documents. *)

\* no other caller has called yet, and no deleteField is pending
Alone(p) ==
  /\ \A q \in Procs \ {p} : pc[q] = "idle"
  /\ passes = EmptyBag /\ dfs = EmptyBag

\* C27: when deleteObjectsByQuery has resolved and no other caller has
\* written, no document of the collection matches its query any more: every
\* document that matched at the read has been removed.
C27_AllMatchesRemoved ==
  \A p \in Procs :
    /\ pc[p] = "done" /\ call[p].op = "deleteObjectsByQuery" /\ res[p].kind = "removed"
    /\ Alone(p)
    => FindKeys(docs, call[p].query) = {}

----------------------------------------------------------------------------
(* findOneAndUpdate and upsertOne over several matching documents. *)

\* C28: when several documents match the query, findOneAndUpdate (called
\* directly or by upsertOne) updates one of them and completes with that
\* document's new content: a call made with no other caller at work, whose
\* query still matches several documents when it has settled, has resolved
\* with content.
C28_FirstMatchUpdated ==
  \A p \in Procs :
    /\ pc[p] = "done" /\ call[p].op \in {"update", "upsert"}
    /\ Alone(p)
    /\ Multiple(docs, call[p].query)
    => res[p].kind = "content"

----------------------------------------------------------------------------
(* OracleSchemaCollection: the schema methods that re-run a lost write.    *)

\* _oracleSchemaQueryFromNameQuery(name): the object {_id: name}
OracleSchemaQueryFromNameQuery(name) == [wraps |-> name.wraps + 1, id |-> name.id]

\* That object with the keys of query copied in, as the filter by example the
\* collection reads with: {_id: n} is an equality on _id, and {_id: {_id: n}}
\* a condition on the path _id._id, which a document whose _id is a class
\* name does not have
SchemaFilter(object, query) ==
  QueryWith(Merge((IF object.wraps = 1 THEN "_id" ELSE "_id._id") :> object.id, query.eq),
            query.exists, query.absent)

\* The classes the callers name
ClassNames == {1, 2}

\* updateSchemaIndexes(name, update) and upsertSchema(name, query, update)
\* with the queries updateFieldOptions passes ({[fieldName]: {$exists: true}})
SchemaCalls ==
  { Call("updateSchemaIndexes", NoQuery,
         SetFields("_metadata" :> ("indexes" :> ("i1" :> 1))), {}, TRUE),
    Call("updateSchemaIndexes", NoQuery,
         SetFields("_metadata" :> ("indexes" :> ("i2" :> 1))), {}, TRUE),
    Call("update", Query(Empty, {"b"}), SetFields("b" :> 2), {}, TRUE),
    Call("update", Query(Empty, {"a"}), SetFields("a" :> 2), {}, TRUE),
    Call("update", NoQuery, SetFields("c" :> 1), {}, TRUE) }

\* A caller calls a method of the schema collection, which calls the
\* collection with _oracleSchemaQueryFromNameQuery(name, query)
SchemaBegin(p) ==
  /\ pc[p] = "idle"
  /\ \E c \in SchemaCalls : \E n \in ClassNames :
       /\ sc' = [sc EXCEPT ![p] = Name(n)]
       /\ call' = [call EXCEPT ![p] =
            [c EXCEPT !.query = SchemaFilter(OracleSchemaQueryFromNameQuery(Name(n)), c.query)]]
       /\ pc' = [pc EXCEPT ![p] = FirstPc(c.op)]
  /\ UNCHANGED <<docs, nextKey, rd, upd, res, passes, dfs, reissued, lost, conn, queryBackup,
                 fnd, rf, pu, wr, ix, pj, rest>>

\* updateSchemaIndexes' then on 'retry': the method calls itself with
\* _oracleSchemaQueryFromNameQuery(name) as its name, and so reads with
\* _oracleSchemaQueryFromNameQuery of that object
UpdateSchemaIndexesRetry(p) ==
  /\ pc[p] = "done"
  /\ call[p].op = "updateSchemaIndexes"
  /\ call[p].retry
  /\ res[p] = Retry
  /\ sc' = [sc EXCEPT ![p] = OracleSchemaQueryFromNameQuery(sc[p])]
  /\ call' = [call EXCEPT ![p].query =
       SchemaFilter(OracleSchemaQueryFromNameQuery(OracleSchemaQueryFromNameQuery(sc[p])),
                    NoQuery)]
  /\ pc' = [pc EXCEPT ![p] = "si_read"]
  /\ res' = [res EXCEPT ![p] = Pending]
  /\ reissued' = [reissued EXCEPT ![p] = TRUE]
  /\ UNCHANGED <<docs, nextKey, rd, upd, passes, dfs, lost, conn, queryBackup, fnd, rf, pu,
                 wr, ix, pj, rest>>

SchemaStep(p) ==
  \/ FURead(p) \/ FUReplace(p) \/ CallerRetry(p)
  \/ SiRead(p) \/ SiReplace(p) \/ UpdateSchemaIndexesRetry(p)

NextSchema == \E p \in Procs : SchemaBegin(p) \/ SchemaStep(p)

SpecSchema == Init /\ [][NextSchema]_vars

\* Every request the store has received is served and every settled promise
\* is continued
FairSchema == SpecSchema /\ \A p \in Procs : WF_vars(SchemaStep(p))

\* the schema document of class n is in the collection
ClassExists(n) == \E k \in DOMAIN docs : docs[k].content["_id"] = n

\* C29: OracleSchemaCollection.updateSchemaIndexes recovers from 'retry': it
\* never resolves with false for a class whose schema document exists (which
\* would leave the indexes of the class as they were).
C29_RetryRecovers ==
  \A p \in Procs :
    /\ pc[p] = "done" /\ call[p].op = "updateSchemaIndexes" /\ call[p].retry
    /\ ClassExists(sc[p].id)
    => res[p].kind # "false"

\* C30: upsertSchema does not resolve with 'retry': after every lost race
\* findOneAndUpdate is run again, and the call ends up resolved, for good,
\* with the written content or with false.
C30_UpsertSchemaResolves ==
  \A p \in Procs :
    (call[p].op = "update") ~> [](pc[p] = "done" /\ res[p].kind \in {"content", "false"})

\* an upsertSchema that lost a race, was run again and resolved with content
C30_Witness ==
  \E p \in Procs :
    /\ call[p].op = "update" /\ call[p].retry /\ reissued[p]
    /\ pc[p] = "done" /\ res[p].kind = "content"

----------------------------------------------------------------------------
(* OracleSchemaCollection.deleteSchemaFields: one deleteSchemaField per    *)
(* field name, all started before any is awaited.                          *)

\* The field names a call may pass: the fields of the first schema document
SchemaFieldNames == {"a", "b", "t"}

\* One promise of the promises array: where it is, the key, version and
\* content of its read, whether it is already the second deleteSchemaField,
\* and what it settled with
FieldTask == [pc |-> "read", key |-> 0, version |-> 0, content |-> Empty,
              again |-> FALSE, res |-> Pending]

\* deleteSchemaField's newquery: {...query, [fieldName]: {$exists: true}}
FieldQuery(name, f) ==
  SchemaFilter(OracleSchemaQueryFromNameQuery(Name(name)), Query(Empty, {f}))

DeleteSchemaUnchanged ==
  UNCHANGED <<nextKey, pc, call, rd, upd, res, passes, dfs, reissued, lost, conn, queryBackup,
              fnd, rf, pu, wr, ix, pj, sc, cq, pl, sx>>

\* deleteSchemaFields(className, fieldNames): the for loop starts every
\* deleteSchemaField
DeleteSchemaFieldsBegin ==
  /\ sd.pc = "idle"
  /\ \E n \in ClassNames : \E names \in (SUBSET SchemaFieldNames) \ {{}} :
       sd' = [sd EXCEPT !.pc = "started", !.name = n, !.tasks = [f \in names |-> FieldTask]]
  /\ UNCHANGED docs
  /\ DeleteSchemaUnchanged

\* another schema writer replaces the schema document of the class
SchemaWriter ==
  /\ sd.pc = "started"
  /\ \E k \in DOMAIN docs :
       /\ docs[k].content["_id"] = sd.name
       /\ ~Has(docs[k].content, "c")
       /\ docs' = ReplaceOne(docs, k, docs[k].version, Set(docs[k].content, "c", 1))
  /\ UNCHANGED sd
  /\ DeleteSchemaUnchanged

\* deleteSchemaField: _rawFind(newquery, 'one'); {} is truthy, so with no
\* document delete oldContent[fieldName] throws
DeleteSchemaFieldRead(f) ==
  /\ sd.pc = "started" /\ f \in DOMAIN sd.tasks
  /\ sd.tasks[f].pc = "read"
  /\ sd' = [sd EXCEPT !.tasks[f] =
       IF Multiple(docs, FieldQuery(sd.name, f))
       THEN [@ EXCEPT !.pc = "settled", !.res = MultipleDocs]
       ELSE IF FindKeys(docs, FieldQuery(sd.name, f)) = {}
       THEN [@ EXCEPT !.pc = "settled", !.res = TypeError]
       ELSE [@ EXCEPT !.pc = "replace",
                      !.key = ReadOne(docs, FieldQuery(sd.name, f)).key,
                      !.version = ReadOne(docs, FieldQuery(sd.name, f)).version,
                      !.content = Unset(ReadOne(docs, FieldQuery(sd.name, f)).content, f)]]
  /\ UNCHANGED docs
  /\ DeleteSchemaUnchanged

\* What the promise of the array does with 'retry': the first time the then
\* calls deleteSchemaField once more, the second time nothing looks at it
AfterSchemaRetry(task) ==
  IF task.again
  THEN [task EXCEPT !.pc = "settled", !.res = Retry]
  ELSE [task EXCEPT !.pc = "read", !.again = TRUE]

\* deleteSchemaField: find().key(key).version(version).replaceOne(oldContent)
DeleteSchemaFieldReplace(f) ==
  /\ sd.pc = "started" /\ f \in DOMAIN sd.tasks
  /\ sd.tasks[f].pc = "replace"
  /\ docs' = ReplaceOne(docs, sd.tasks[f].key, sd.tasks[f].version, sd.tasks[f].content)
  /\ sd' = [sd EXCEPT !.tasks[f] =
       IF Replaced(docs, sd.tasks[f].key, sd.tasks[f].version)
       THEN [@ EXCEPT !.pc = "settled", !.res = Done(sd.tasks[f].content)]
       ELSE AfterSchemaRetry(@)]
  /\ DeleteSchemaUnchanged

\* await Promise.all(promises): rejects when a promise rejected, resolves
\* with the results when all have resolved
DeleteSchemaFieldsSettle ==
  /\ sd.pc = "started"
  /\ \/ /\ \E f \in DOMAIN sd.tasks : sd.tasks[f].res.kind = "error"
        /\ sd' = [sd EXCEPT !.pc = "done", !.res = TypeError]
     \/ /\ \A f \in DOMAIN sd.tasks :
             sd.tasks[f].pc = "settled" /\ sd.tasks[f].res.kind # "error"
        /\ sd' = [sd EXCEPT !.pc = "done", !.res = Array(Cardinality(DOMAIN sd.tasks))]
  /\ UNCHANGED docs
  /\ DeleteSchemaUnchanged

NextDeleteSchema ==
  \/ DeleteSchemaFieldsBegin
  \/ SchemaWriter
  \/ \E f \in SchemaFieldNames : DeleteSchemaFieldRead(f) \/ DeleteSchemaFieldReplace(f)
  \/ DeleteSchemaFieldsSettle

SpecDeleteSchema == Init /\ [][NextDeleteSchema]_vars

\* C31: when deleteSchemaFields has resolved, every named field is absent
\* from the schema document of the class, and no entry of the result is
\* 'retry'.
C31_FieldsDeleted ==
  sd.pc = "done" /\ sd.res.kind = "array"
  => /\ \A f \in DOMAIN sd.tasks : sd.tasks[f].res # Retry
     /\ \A k \in DOMAIN docs :
          docs[k].content["_id"] = sd.name
          => \A f \in DOMAIN sd.tasks : ~Has(docs[k].content, f)

----------------------------------------------------------------------------
(* OracleSchemaCollection.addFieldIfNotExists.                             *)

\* The field types two callers may pass for one field name (none of them a
\* GeoPoint)
FieldTypes == {1, 2}

\* upsertSchema(className, {[fieldName]: {$exists: false}},
\*              {[fieldName]: parseFieldTypeToOracleFieldType(...)}):
\* field b is in the first schema document from the start, field d in none
AddFieldCalls ==
  { Call("update", QueryWith(Empty, {}, {f}), SetFields(f :> ty), {}, TRUE) :
      f \in {"b", "d"}, ty \in FieldTypes }

\* addFieldIfNotExists(className, fieldName, fieldType) is called and asks
\* for the schema of the class
AddFieldBegin(p) ==
  /\ pc[p] = "idle"
  /\ \E c \in AddFieldCalls : \E n \in ClassNames :
       /\ sc' = [sc EXCEPT ![p] = Name(n)]
       /\ call' = [call EXCEPT ![p] =
            [c EXCEPT !.query = SchemaFilter(OracleSchemaQueryFromNameQuery(Name(n)), c.query)]]
       /\ pc' = [pc EXCEPT ![p] = "af_fetch"]
  /\ UNCHANGED <<docs, nextKey, rd, upd, res, passes, dfs, reissued, lost, conn, queryBackup,
                 fnd, rf, pu, wr, ix, pj, rest>>

\* _fetchOneSchemaFrom_SCHEMA has settled: whether the schema was found, has
\* the field or does not exist, both handlers return and upsertSchema is
\* called
AddFieldFetched(p) ==
  /\ pc[p] = "af_fetch"
  /\ pc' = [pc EXCEPT ![p] = FirstPc(call[p].op)]
  /\ UNCHANGED <<docs, nextKey, call, rd, upd, res, passes, dfs, reissued, lost, conn,
                 queryBackup, fnd, rf, pu, more>>

NextAddField ==
  \E p \in Procs :
    AddFieldBegin(p) \/ AddFieldFetched(p) \/ FURead(p) \/ FUReplace(p) \/ CallerRetry(p)

SpecAddField == Init /\ [][NextAddField]_vars

\* C32: a field that is in a schema document keeps the type stored first
\* through every step of concurrent addFieldIfNotExists calls.
C32_FirstTypeKept ==
  [][\A k \in DOMAIN docs : \A f \in {"b", "d"} :
       Has(docs[k].content, f)
       => /\ k \in DOMAIN docs'
          /\ Has(docs'[k].content, f)
          /\ docs'[k].content[f] = docs[k].content[f]]_vars

\* two calls for field d of one class with different types: the one that
\* lost the race read again, found no document without the field and
\* resolved false; the type of the other is stored
C32_Witness ==
  \E p \in Procs : \E q \in Procs \ {p} :
    /\ pc[p] = "done" /\ res[p].kind = "content"
    /\ pc[q] = "done" /\ res[q] = False /\ reissued[q]
    /\ sc[p] = sc[q]
    /\ Has(call[p].update.set, "d") /\ Has(call[q].update.set, "d")
    /\ call[p].update.set["d"] # call[q].update.set["d"]
    /\ \E k \in DOMAIN docs :
         Has(docs[k].content, "d") /\ docs[k].content["d"] = call[p].update.set["d"]

----------------------------------------------------------------------------
(* OracleStorageAdapter.checkUserQuery: null taken out of the $in list of  *)
(* _wperm and _rperm.                                                      *)

MaxPerms == 2

\* the principals of an $in list: null and two names
Principals == {Null(""), Num("", 1), Num("", 2)}

PermLists == UNION { [1..n -> Principals] : n \in 1..MaxPerms }

\* The members a query may have under each key
UserClauses(x) ==
  CASE x \in {"_wperm", "_rperm"} -> { Obj(x, <<Arr("$in", l)>>) : l \in PermLists }
    [] x = "g" -> { Num("g", 5) }
    [] OTHER -> { Arr("$or", <<Obj("", <<Num("g", 5)>>), Obj("", <<Num("g", 6)>>)>>) }

UserKeys == {"_wperm", "_rperm", "g", "$or"}

\* A query: some of the keys, in any order, each with one of its members
UserQueries ==
  UNION { UNION { { Obj("", [i \in 1..Len(o) |-> c[o[i]]]) :
                      c \in { d \in [S -> UNION { UserClauses(x) : x \in S }] :
                                \A x \in S : d[x] \in UserClauses(x) } } :
                  o \in { q \in [1..Cardinality(S) -> S] :
                            \A i, j \in 1..Cardinality(S) : i # j => q[i] # q[j] } } :
          S \in (SUBSET UserKeys) \ {{}} }

\* newObj[x] = queryObj[x]; a member that is undefined is not part of the
\* query that is sent
Assign(newObj, queryObj, x) ==
  IF HasKey(queryObj, x) THEN Put(newObj, Member(queryObj, x)) ELSE Without(newObj, x)

\* the elements of an $in list of two or more that are not null
Pushed(y) ==
  IF y.k = "$in" /\ Len(y.l) >= 2 THEN SelectSeq(y.l, LAMBDA e : e.t # "null") ELSE <<>>

FoundNull(y) == y.k = "$in" /\ Len(y.l) >= 2 /\ \E i \in 1..Len(y.l) : y.l[i].t = "null"

\* the list of conditions parsed from temp / rpermOr
PermOr(x, myArray, checkNull) ==
  <<Obj("", <<Obj(x, <<Arr("$in", myArray)>>)>>), Obj("", <<Null(x)>>)>>
  \o (IF checkNull THEN <<Obj("", <<Obj(x, <<Bool("$exists", FALSE)>>)>>)>> ELSE <<>>)

\* The state of the loop: newObj, queryObj and checkNull
UserLoop(newObj, queryObj, checkNull) ==
  [newObj |-> newObj, queryObj |-> queryObj, checkNull |-> checkNull]

\* for (const y in json) of the _wperm block, from member i on
RECURSIVE WpermOperators(_, _, _, _)
WpermOperators(json, i, myArray, st) ==
  IF i > Len(json.l) THEN st
  ELSE LET y == json.l[i]
           arr == myArray \o Pushed(y)
           chk == st.checkNull \/ FoundNull(y)
       IN WpermOperators(json, i + 1, arr,
            IF Len(y.l) # Len(arr)
            THEN UserLoop(Put(st.newObj, Arr("$or", PermOr("_wperm", arr, chk))),
                          Without(st.queryObj, "_wperm"), chk)
            ELSE UserLoop(Assign(st.newObj, st.queryObj, "_wperm"), st.queryObj, chk))

\* for (const y in json) of the _rperm block, from member i on
RECURSIVE RpermOperators(_, _, _, _)
RpermOperators(json, i, myArray, st) ==
  IF i > Len(json.l) THEN st
  ELSE LET y == json.l[i]
           arr == myArray \o Pushed(y)
           chk == st.checkNull \/ FoundNull(y)
           less == Without(st.newObj, "_rperm")
       IN RpermOperators(json, i + 1, arr,
            IF Len(y.l) # Len(arr)
            THEN UserLoop(
                   IF HasKey(less, "$or")
                   THEN Without(Put(less, Arr("$and",
                          <<Obj("", <<Member(less, "$or")>>),
                            Obj("", <<Arr("$or", PermOr("_rperm", arr, chk))>>)>>)), "$or")
                   ELSE Put(less, Arr("$or", PermOr("_rperm", arr, chk))),
                   st.queryObj, chk)
            ELSE UserLoop(Assign(st.newObj, st.queryObj, "_rperm"), st.queryObj, chk))

\* One pass of for (const x in queryObj): the _wperm block, then the _rperm
\* block
UserKey(x, st) ==
  LET w == IF x = "_wperm" /\ IsObject(Member(st.queryObj, x))
           THEN WpermOperators(Member(st.queryObj, x), 1, <<>>, st)
           ELSE UserLoop(Assign(st.newObj, st.queryObj, x), st.queryObj, st.checkNull)
  IN IF x = "_rperm" /\ IsObject(Member(w.queryObj, x))
     THEN RpermOperators(Member(w.queryObj, x), 1, <<>>, w)
     ELSE UserLoop(Assign(w.newObj, w.queryObj, x), w.queryObj, w.checkNull)

RECURSIVE UserKeysFrom(_, _, _)
UserKeysFrom(query, i, st) ==
  IF i > Len(query.l) THEN st ELSE UserKeysFrom(query, i + 1, UserKey(query.l[i].k, st))

\* checkUserQuery(query)
CheckUserQuery(query) == UserKeysFrom(query, 1, UserLoop(Obj("", <<>>), query, FALSE)).newObj

UserQueryUnchanged ==
  UNCHANGED <<docs, nextKey, pc, call, rd, upd, res, passes, dfs, reissued, lost, conn,
              queryBackup, fnd, rf, pu, wr, ix, pj, sc, sd, pl, sx>>

\* checkUserQuery is called with a query
CheckUserQueryBegin ==
  /\ cq.pc = "idle"
  /\ \E q \in UserQueries : cq' = [cq EXCEPT !.pc = "called", !.query = q]
  /\ UserQueryUnchanged

\* and returns newObj
CheckUserQueryReturn ==
  /\ cq.pc = "called"
  /\ cq' = [cq EXCEPT !.pc = "done", !.result = CheckUserQuery(cq.query)]
  /\ UserQueryUnchanged

NextUserQuery == CheckUserQueryBegin \/ CheckUserQueryReturn

SpecUserQuery == InitWith(InitDocs(1)) /\ [][NextUserQuery]_vars

\* The documents the queries are tried on: each permission field missing,
\* null, or a list of principals; g is 5 or 6
PermValues(x) ==
  { <<>>, <<Null(x)>>, <<Arr(x, <<Num("", 1)>>)>>, <<Arr(x, <<Num("", 2)>>)>>,
    <<Arr(x, <<Num("", 1), Num("", 2)>>)>> }

PermDocs ==
  { Obj("", w \o r \o <<Num("g", n)>>) :
      w \in PermValues("_wperm"), r \in PermValues("_rperm"), n \in {5, 6} }

\* an $in list, at any depth, holds null
RECURSIVE NullInList(_)
NullInList(v) ==
  /\ v.t \in {"obj", "arr"}
  /\ \/ v.k = "$in" /\ \E i \in 1..Len(v.l) : v.l[i].t = "null"
     \/ \E i \in 1..Len(v.l) : NullInList(v.l[i])

\* C33: the query checkUserQuery returns holds no null in an $in list,
\* matches every document the query matches (the documents that hold a
\* principal of the list, and those whose permission field is null when
\* the list holds null), and has every other member of the query unchanged.
C33_NullTakenOut ==
  cq.pc = "done"
  => /\ ~NullInList(cq.result)
     /\ \A doc \in PermDocs : Eval(cq.query, doc) => Eval(cq.result, doc)
     /\ \A i \in 1..Len(cq.query.l) :
          cq.query.l[i].k \notin {"_wperm", "_rperm"}
          => /\ HasKey(cq.result, cq.query.l[i].k)
             /\ Member(cq.result, cq.query.l[i].k) = cq.query.l[i]

----------------------------------------------------------------------------
(* findOneAndUpdate with $unset next to the other documents.               *)

\* $unset of a field that other documents hold too (a), of one that only
\* the first document holds (b), and a plain write of the second document
\* by a caller that calls again on 'retry'
UnsetCalls ==
  { Call("update", ById(1), Update(Empty, {"a"}, Empty, Empty, Empty), {}, FALSE),
    Call("update", ById(1), Update(Empty, {"b"}, Empty, Empty, Empty), {}, FALSE),
    Call("update", ById(2), Update("b" :> 2, {"a"}, Empty, Empty, Empty), {}, FALSE),
    Call("update", ById(2), SetFields("b" :> 2), {}, TRUE) }

NextUnset == \E p \in Procs : BeginFrom(p, UnsetCalls) \/ UpdateStep(p) \/ TaskStep(p)

SpecUnset == Init /\ [][NextUnset]_vars

\* C34: when a findOneAndUpdate with $unset has resolved and no other
\* caller has called, every document its filter does not match has the
\* content and the version it was stored with.
C34_OtherDocumentsKept ==
  \A p \in Procs :
    /\ pc[p] = "done" /\ call[p].op = "update" /\ call[p].update.unset # {}
    /\ Alone(p)
    => \A k \in DOMAIN docs :
         ~Matches(DocContent(k), call[p].query)
         => docs[k] = [version |-> 1, content |-> DocContent(k)]

----------------------------------------------------------------------------
(* The filter rewriting next to the other fields of the query.             *)

\* C35: the filter handed to the store still enforces the plain equalities
\* of the query, whatever rewrite another field of the query caused: a
\* document that is returned satisfies each of them.
C35_OtherConstraintsKept ==
  (rf.pc = "done" /\ rf.submitted /\ rf.result.kind = "objects")
    => \A k \in rf.result.keys : \A i \in 1..Len(rf.query.l) :
         rf.query.l[i].t = "num" => Eval(Obj("", <<rf.query.l[i]>>), docs[k].content)

----------------------------------------------------------------------------
(* The update operators and the stored content.                            *)

UpdateOperators == {"$unset", "$inc", "$addToSet", "$pullAll"}

\* C36: the content a successful findOneAndUpdate has written (which is
\* what it resolves with) has no update operator among its fields.
C36_NoOperatorStored ==
  \A p \in Procs :
    (pc[p] = "done" /\ call[p].op \in {"update", "upsert"} /\ res[p].kind = "content")
      => DOMAIN res[p].content \cap UpdateOperators = {}

----------------------------------------------------------------------------
(* What upsertOne resolves with.                                           *)

\* C37: an upsertOne that has resolved resolved with the content of its
\* replace, with the result of its insert or with 'retry' (or it rejected):
\* never with another value, its update neither applied nor inserted.
C37_UpsertWroteOrRetry ==
  \A p \in Procs :
    (pc[p] = "done" /\ call[p].op = "upsert")
      => res[p].kind \in {"content", "inserted", "retry", "error"}

----------------------------------------------------------------------------
(* this._oracleCollection under concurrent operations.                     *)

\* The operation whose getCollectionConnection opened the handle that p's
\* request goes through.  The then of an operation reads
\* this._oracleCollection in the turn in which its own
\* getCollectionConnection assigned it; _createIndex reads it after it has
\* awaited localConn.execute(ddlTimeOut), when it is whatever was assigned
\* last.
HandleOf(p) == IF conn.of[p].kind = "_createIndex" THEN conn.collection ELSE p

\* C38: the request of an operation goes through the collection handle
\* opened on the connection this operation acquired.
C38_OwnHandle == \A p \in Procs : At(p, "request") => HandleOf(p) = p

----------------------------------------------------------------------------
(* OracleStorageAdapter.connect and the connection pool.                   *)

\* the connect() calls one caller makes
MaxConnects == 2

PoolUnchanged ==
  UNCHANGED <<docs, nextKey, pc, call, rd, upd, res, passes, dfs, reissued, lost, conn,
              queryBackup, fnd, rf, pu, wr, ix, pj, sc, sd, cq, sx>>

\* connect() up to its first await: the pool when connectionPromise is set;
\* createPool is started when createConnPool is true; otherwise
\* this.connectionPromise is returned as it is
ConnectCall(p) ==
  /\ pl.of[p].pc \in {"idle", "done"}
  /\ pl.of[p].calls < MaxConnects
  /\ pl' = IF pl.connectionPromise
           THEN [pl EXCEPT !.of[p] = [pc |-> "done", res |-> "pool", calls |-> @.calls + 1]]
           ELSE IF pl.createConnPool
           THEN [pl EXCEPT !.createConnPool = FALSE,
                           !.of[p] = [pc |-> "createPool", res |-> "pending",
                                      calls |-> @.calls + 1]]
           ELSE [pl EXCEPT !.of[p] = [pc |-> "done", res |-> "undefined",
                                      calls |-> @.calls + 1]]
  /\ PoolUnchanged

\* oracledb.createPool settles: connectionPromise and _connectionPool are
\* assigned, or the error is thrown again
CreatePool(p) ==
  /\ pl.of[p].pc = "createPool"
  /\ \E ok \in BOOLEAN :
       pl' = IF ok
             THEN [pl EXCEPT !.connectionPromise = TRUE, !.pools = @ + 1,
                             !.of[p].pc = "done", !.of[p].res = "pool"]
             ELSE [pl EXCEPT !.of[p].pc = "done", !.of[p].res = "rejected"]
  /\ PoolUnchanged

\* handleError with an error of code 13: delete this.connectionPromise
HandleUnauthorized ==
  /\ pl.connectionPromise
  /\ pl' = [pl EXCEPT !.connectionPromise = FALSE]
  /\ PoolUnchanged

NextPool == HandleUnauthorized \/ \E p \in Procs : ConnectCall(p) \/ CreatePool(p)

SpecPool == Init /\ [][NextPool]_vars

\* C39: no connect() resolves to undefined, and at most one pool is
\* created.
C39_ConnectGivesPool ==
  /\ pl.pools <= 1
  /\ \A p \in Procs : pl.of[p].pc = "done" => pl.of[p].res # "undefined"

----------------------------------------------------------------------------
(* OracleStorageAdapter.setIndexesWithSchemaFormat.                        *)

MaxSubmitted == 2

\* fields of the class: a is one, z is not
ClassFields == {"a"}

\* The entries of submittedIndexes: {name: {__op: 'Delete'}} or
\* {name: {key: 1}}
SubmittedEntries ==
  { [name |-> n, op |-> "Delete", key |-> ""] : n \in {"i1", "i2", "i3"} }
  \cup { [name |-> n, op |-> "", key |-> k] : n \in {"i1", "i2", "i3"}, k \in {"a", "z"} }

SubmittedIndexes ==
  { l \in UNION { [1..n -> SubmittedEntries] : n \in 1..MaxSubmitted } :
      \A i, j \in 1..Len(l) : i # j => l[i].name # l[j].name }

SetIndexesUnchanged ==
  UNCHANGED <<docs, nextKey, pc, call, rd, upd, res, passes, dfs, reissued, lost, conn,
              queryBackup, fnd, rf, pu, wr, ix, pj, sc, sd, cq, pl>>

\* setIndexesWithSchemaFormat(className, submittedIndexes, existingIndexes,
\* fields) is called with the indexes of the schema
SetIndexesBegin ==
  /\ sx.pc = "idle"
  /\ \E l \in SubmittedIndexes :
       sx' = [sx EXCEPT !.pc = "loop", !.submitted = l, !.existingIndexes = sx.metadata]
  /\ SetIndexesUnchanged

\* the body of the for loop for entry i when dropIndex is awaited at once
SetIndexesEntry ==
  /\ sx.pc = "loop"
  /\ sx.i <= Len(sx.submitted)
  /\ LET e == sx.submitted[sx.i]
     IN IF \/ e.name \in sx.existingIndexes /\ e.op # "Delete"
           \/ e.name \notin sx.existingIndexes /\ e.op = "Delete"
        THEN sx' = [sx EXCEPT !.pc = "done", !.res = "INVALID_QUERY"]
        ELSE IF e.op = "Delete"
        THEN \E ok \in BOOLEAN :
               sx' = IF ok
                     THEN [sx EXCEPT !.i = @ + 1,
                                     !.soda = @ \ {e.name},
                                     !.indexes = Spliced(@, e.name),
                                     !.existingIndexes = @ \ {e.name}]
                     ELSE [sx EXCEPT !.pc = "done", !.res = "error"]
        ELSE IF e.key \notin ClassFields
        THEN sx' = [sx EXCEPT !.pc = "done", !.res = "INVALID_QUERY"]
        ELSE sx' = [sx EXCEPT !.i = @ + 1,
                              !.existingIndexes = @ \cup {e.name},
                              !.insertedIndexes = Append(@, e.name)]
  /\ SetIndexesUnchanged

\* after the loop: createIndexes(className, insertedIndexes) when there is
\* an index to insert
SetIndexesCreate ==
  /\ sx.pc = "loop"
  /\ sx.i > Len(sx.submitted)
  /\ \E ok \in (IF Len(sx.insertedIndexes) > 0 THEN BOOLEAN ELSE {TRUE}) :
       sx' = IF ok
             THEN [sx EXCEPT !.pc = "update",
                             !.soda = @ \cup SeqToSet(sx.insertedIndexes),
                             !.indexes = @ \o sx.insertedIndexes]
             ELSE [sx EXCEPT !.pc = "done", !.res = "error"]
  /\ SetIndexesUnchanged

\* updateSchemaIndexes(className, {_metadata: {indexes: existingIndexes}})
SetIndexesUpdate ==
  /\ sx.pc = "update"
  /\ sx' = [sx EXCEPT !.pc = "done", !.metadata = sx.existingIndexes, !.res = "resolved"]
  /\ SetIndexesUnchanged

NextSetIndexes == SetIndexesBegin \/ SetIndexesEntry \/ SetIndexesCreate \/ SetIndexesUpdate

SpecSetIndexes == InitWith(InitDocs(1)) /\ [][NextSetIndexes]_vars

\* C40: when setIndexesWithSchemaFormat has rejected with INVALID_QUERY, the
\* store has the indexes it had, this.indexes is unchanged and so is the
\* index metadata of the schema document.
C40_RejectedLeavesIndexes ==
  (sx.pc = "done" /\ sx.res = "INVALID_QUERY")
    => /\ sx.soda = SeqToSet(ExistingIndexes)
       /\ sx.indexes = ExistingIndexes
       /\ sx.metadata = SeqToSet(ExistingIndexes)

====
